---- MODULE Spec2Model ----
(***************************************************************************)
(* A model of docusaurus-plugin-mcp-server: the McpDocsServer of           *)
(* src/mcp/server.ts (file/data snapshot loading, per-request transports), *)
(* the provider-based McpDocsServer with its FlexSearchProvider, the       *)
(* heading extractor and the docs_search tool.                             *)
(*                                                                         *)
(* Asynchronous code is modelled with one step per `await`: a caller's pc  *)
(* names the await it is suspended at, and any other caller may run        *)
(* between two steps.  Text is a sequence of one-character strings.        *)
(***************************************************************************)
EXTENDS Integers, Sequences, FiniteSets, TLC

VARIABLES
  cfg,            \* the McpServerConfig and the snapshot files it names
  docs,           \* McpDocsServer.docs
  searchIndex,    \* McpDocsServer.searchIndex
  initialized,    \* McpDocsServer.initialized
  mcpTransport,   \* the transport the shared McpServer is connected to
  pc,             \* per caller: the await it is suspended at
  kind,           \* per caller: what it called
  outcome,        \* per caller: how its call ended
  docLoads,       \* how many times the docs file was read into this.docs
  indexImports,   \* how many times importSearchIndex completed
  attempts,       \* how many initialize() calls entered the try block
  searchProvider, \* provider-based server: this.searchProvider
  provReady,      \* per FlexSearchProvider instance: ready
  provDocs,       \* per FlexSearchProvider instance: docs
  provIndex,      \* per FlexSearchProvider instance: searchIndex
  loadQueue,      \* the callers suspended at `await loadSearchProvider(..)`, in call order
  fin,            \* the inputs of the pure function under check
  fout            \* its result

vars == <<cfg, docs, searchIndex, initialized, mcpTransport, pc, kind, outcome,
          docLoads, indexImports, attempts,
          searchProvider, provReady, provDocs, provIndex, loadQueue, fin, fout>>

serverVars == <<cfg, docs, searchIndex, initialized, mcpTransport, pc, kind,
                outcome, docLoads, indexImports, attempts>>
providerVars == <<searchProvider, provReady, provDocs, provIndex, loadQueue>>
pureVars == <<fin, fout>>

(***************************************************************************)
(* Bounds                                                                  *)
(***************************************************************************)
NCallers == 3

Callers == 1..NCallers

\* null, for the fields that hold a route-keyed object or an index
Null == {"<null>"}
\* the documents of the snapshot (docs.json / config.docs), by route
SnapshotDocs == {"/docs/a", "/docs/b"}
\* the index importSearchIndex builds from the snapshot
SnapshotIndex == {"index"}
\* no transport / no provider
None == 0

Kinds == {"initialize", "tool", "http"}

(***************************************************************************)
(* Configurations: data mode, file mode with each file present, missing or *)
(* unparsable, and a config with neither (src/mcp/server.ts 409-418).      *)
(***************************************************************************)
FileStates == {"ok", "missing", "bad"}

Configs ==
  {[mode |-> "data", docsFile |-> "ok", indexFile |-> "ok"],
   [mode |-> "invalid", docsFile |-> "ok", indexFile |-> "ok"]}
  \cup {[mode |-> "file", docsFile |-> d, indexFile |-> i] :
          d \in FileStates, i \in FileStates}

isDataConfig(c) == c.mode = "data"
isFileConfig(c) == c.mode = "file"

\* the configurations whose snapshot cannot be loaded
LoadFails(c) ==
  \/ c.mode = "invalid"
  \/ c.mode = "file" /\ (c.docsFile # "ok" \/ c.indexFile # "ok")

providerIdle ==
  /\ searchProvider = None
  /\ provReady = [i \in Callers |-> FALSE]
  /\ provDocs = [i \in Callers |-> Null]
  /\ provIndex = [i \in Callers |-> Null]
  /\ loadQueue = <<>>

pureIdle ==
  /\ fin = <<>>
  /\ fout = <<>>

serverInit ==
  /\ cfg \in Configs
  /\ docs = Null
  /\ searchIndex = Null
  /\ initialized = FALSE
  /\ mcpTransport = None
  /\ pc = [p \in Callers |-> "idle"]
  /\ kind = [p \in Callers |-> "none"]
  /\ outcome = [p \in Callers |-> "none"]
  /\ docLoads = 0
  /\ indexImports = 0
  /\ attempts = 0

\* no server is constructed: the module's functions are called on their own
serverIdle ==
  /\ serverInit
  /\ ~isDataConfig(cfg)
  /\ ~isFileConfig(cfg)

Init ==
  /\ serverInit
  /\ providerIdle
  /\ pureIdle

(***************************************************************************)
(* McpDocsServer.initialize, src/mcp/server.ts 574-607 (the same body as   *)
(* 75-108).  Each action runs from one await to the next.                  *)
(***************************************************************************)

\* a mutant of Reject: the catch block swallows the error
RejectSwallowed(p) ==
  /\ pc' = [pc EXCEPT ![p] = "resolved"]
  /\ outcome' = outcome

\* the promise of initialize() rejects: the catch block logs and rethrows,
\* the caller's `await this.initialize()` throws
Reject(p) ==
  /\ pc' = [pc EXCEPT ![p] = "done"]
  /\ outcome' = [outcome EXCEPT ![p] = "rejected"]

\* entry: the `initialized` guard, then the code up to the first await
Begin(p, k) ==
  /\ pc[p] = "idle"
  /\ kind' = [kind EXCEPT ![p] = k]
  /\ IF initialized
       THEN /\ pc' = [pc EXCEPT ![p] = "resolved"]
            /\ UNCHANGED <<docs, attempts, outcome>>
       ELSE /\ attempts' = attempts + 1
            /\ IF isDataConfig(cfg)
                 THEN \* this.docs = this.config.docs; await importSearchIndex(..)
                      /\ docs' = SnapshotDocs
                      /\ pc' = [pc EXCEPT ![p] = "import"]
                      /\ UNCHANGED outcome
                 ELSE IF isFileConfig(cfg)
                 THEN \* await fs.pathExists(docsPath)
                      /\ pc' = [pc EXCEPT ![p] = "docsExists"]
                      /\ UNCHANGED <<docs, outcome>>
                 ELSE \* throw new Error('Invalid server config ...')
                      /\ Reject(p)
                      /\ UNCHANGED docs
  /\ UNCHANGED <<cfg, searchIndex, initialized, mcpTransport, docLoads,
                 indexImports>>
  /\ UNCHANGED <<providerVars, pureVars>>

\* fs.pathExists(docsPath) resolved
DocsExists(p) ==
  /\ pc[p] = "docsExists"
  /\ IF cfg.docsFile = "missing"
       THEN Reject(p)
       ELSE /\ pc' = [pc EXCEPT ![p] = "readDocs"]
            /\ UNCHANGED outcome
  /\ UNCHANGED <<cfg, docs, searchIndex, initialized, mcpTransport, kind,
                 docLoads, indexImports, attempts>>
  /\ UNCHANGED <<providerVars, pureVars>>

\* fs.readJson(docsPath) resolved: this.docs = ...; await fs.pathExists(indexPath)
ReadDocs(p) ==
  /\ pc[p] = "readDocs"
  /\ IF cfg.docsFile = "bad"
       THEN /\ Reject(p)
            /\ UNCHANGED <<docs, docLoads>>
       ELSE /\ docs' = SnapshotDocs
            /\ docLoads' = docLoads + 1
            /\ pc' = [pc EXCEPT ![p] = "indexExists"]
            /\ UNCHANGED outcome
  /\ UNCHANGED <<cfg, searchIndex, initialized, mcpTransport, kind,
                 indexImports, attempts>>
  /\ UNCHANGED <<providerVars, pureVars>>

\* fs.pathExists(indexPath) resolved
IndexExists(p) ==
  /\ pc[p] = "indexExists"
  /\ IF cfg.indexFile = "missing"
       THEN Reject(p)
       ELSE /\ pc' = [pc EXCEPT ![p] = "readIndex"]
            /\ UNCHANGED outcome
  /\ UNCHANGED <<cfg, docs, searchIndex, initialized, mcpTransport, kind,
                 docLoads, indexImports, attempts>>
  /\ UNCHANGED <<providerVars, pureVars>>

\* fs.readJson(indexPath) resolved: await importSearchIndex(indexData)
ReadIndex(p) ==
  /\ pc[p] = "readIndex"
  /\ IF cfg.indexFile = "bad"
       THEN Reject(p)
       ELSE /\ pc' = [pc EXCEPT ![p] = "import"]
            /\ UNCHANGED outcome
  /\ UNCHANGED <<cfg, docs, searchIndex, initialized, mcpTransport, kind,
                 docLoads, indexImports, attempts>>
  /\ UNCHANGED <<providerVars, pureVars>>

\* importSearchIndex resolved: this.searchIndex = ...; this.initialized = true
ImportDone(p) ==
  /\ pc[p] = "import"
  /\ searchIndex' = SnapshotIndex
  /\ indexImports' = indexImports + 1
  /\ initialized' = TRUE
  /\ pc' = [pc EXCEPT ![p] = "resolved"]
  /\ UNCHANGED <<cfg, docs, mcpTransport, kind, outcome, docLoads, attempts>>
  /\ UNCHANGED <<providerVars, pureVars>>

(***************************************************************************)
(* What runs after `await this.initialize()` resolved.                     *)
(***************************************************************************)

\* a direct initialize() call returns
InitializeReturns(p) ==
  /\ pc[p] = "resolved"
  /\ kind[p] = "initialize"
  /\ pc' = [pc EXCEPT ![p] = "done"]
  /\ outcome' = [outcome EXCEPT ![p] = "resolved"]
  /\ UNCHANGED <<cfg, docs, searchIndex, initialized, mcpTransport, kind,
                 docLoads, indexImports, attempts>>
  /\ UNCHANGED <<providerVars, pureVars>>

\* the docs_search tool handler, src/mcp/server.ts 480-497 (as 122-135)
ToolHandler(p) ==
  /\ pc[p] = "resolved"
  /\ kind[p] = "tool"
  /\ pc' = [pc EXCEPT ![p] = "done"]
  /\ outcome' = [outcome EXCEPT ![p] =
                   IF docs = Null \/ searchIndex = Null
                     THEN "notInitialized" ELSE "answered"]
  /\ UNCHANGED <<cfg, docs, searchIndex, initialized, mcpTransport, kind,
                 docLoads, indexImports, attempts>>
  /\ UNCHANGED <<providerVars, pureVars>>

\* handleHttpRequest / handleWebRequest, src/mcp/server.ts 619-673:
\* new transport; await this.mcpServer.connect(transport)
Connect(p) ==
  /\ pc[p] = "resolved"
  /\ kind[p] = "http"
  /\ mcpTransport' = p
  /\ pc' = [pc EXCEPT ![p] = "handle"]
  /\ UNCHANGED <<cfg, docs, searchIndex, initialized, kind, outcome,
                 docLoads, indexImports, attempts>>
  /\ UNCHANGED <<providerVars, pureVars>>

\* await transport.handleRequest(req, res, parsedBody)
HandleRequest(p) ==
  /\ pc[p] = "handle"
  /\ pc' = [pc EXCEPT ![p] = "close"]
  /\ UNCHANGED <<cfg, docs, searchIndex, initialized, mcpTransport, kind,
                 outcome, docLoads, indexImports, attempts>>
  /\ UNCHANGED <<providerVars, pureVars>>

\* finally: await transport.close()
Close(p) ==
  /\ pc[p] = "close"
  /\ pc' = [pc EXCEPT ![p] = "done"]
  /\ outcome' = [outcome EXCEPT ![p] = "responded"]
  /\ UNCHANGED <<cfg, docs, searchIndex, initialized, mcpTransport, kind,
                 docLoads, indexImports, attempts>>
  /\ UNCHANGED <<providerVars, pureVars>>

Next ==
  \/ \E p \in Callers, k \in Kinds : Begin(p, k)
  \/ \E p \in Callers : DocsExists(p)
  \/ \E p \in Callers : ReadDocs(p)
  \/ \E p \in Callers : IndexExists(p)
  \/ \E p \in Callers : ReadIndex(p)
  \/ \E p \in Callers : ImportDone(p)
  \/ \E p \in Callers : InitializeReturns(p)
  \/ \E p \in Callers : ToolHandler(p)
  \/ \E p \in Callers : Connect(p)
  \/ \E p \in Callers : HandleRequest(p)
  \/ \E p \in Callers : Close(p)

Spec == Init /\ [][Next]_vars

(***************************************************************************)
(* C1: over any interleaving of repeated and concurrent initialize()       *)
(* calls, the snapshot (the documents and the search-index import) is      *)
(* loaded at most once.                                                    *)
(***************************************************************************)
C1_SnapshotLoadedAtMostOnce ==
  /\ docLoads <= 1
  /\ indexImports <= 1

(***************************************************************************)
(* C3: after initialization, handling a request mutates no state shared    *)
(* between requests: the documents, the search index and the transport     *)
(* binding of the server stay as they are.                                 *)
(***************************************************************************)
C3_RequestsMutateNoSharedState ==
  [][initialized =>
       /\ docs' = docs
       /\ searchIndex' = searchIndex
       /\ mcpTransport' = mcpTransport]_vars

(***************************************************************************)
(* C4: a query is answered only by a server whose initialization has       *)
(* completed; when the snapshot cannot be loaded, `initialized` stays      *)
(* false, every call that finished was rejected, and every call made so    *)
(* far attempted the load again.                                           *)
(***************************************************************************)
C4_FailedInitializationNeverServes ==
  /\ \A p \in Callers :
       outcome[p] \in {"answered", "responded"} =>
         initialized /\ docs # Null /\ searchIndex # Null
  /\ LoadFails(cfg) =>
       /\ ~initialized
       /\ \A p \in Callers : pc[p] = "done" => outcome[p] = "rejected"
       /\ attempts = Cardinality({p \in Callers : pc[p] # "idle"})

\* the index file is missing: the documents were read, two tool calls were
\* rejected one after the other
C4_Witness ==
  /\ cfg.mode = "file" /\ cfg.indexFile = "missing"
  /\ docs = SnapshotDocs
  /\ ~initialized
  /\ attempts >= 2
  /\ \E p, q \in Callers :
       /\ p # q
       /\ kind[p] = "tool" /\ outcome[p] = "rejected"
       /\ kind[q] = "tool" /\ outcome[q] = "rejected"

(***************************************************************************)
(* The provider-based McpDocsServer (src/plugin/route-collector.ts         *)
(* 214-493) with the FlexSearchProvider                                    *)
(* (src/providers/indexers/flexsearch-indexer.ts 91-182).  Each            *)
(* initialize() call that passes the guard creates a provider of its own;  *)
(* a provider is named by the caller that created it.                      *)
(***************************************************************************)
ProviderKinds == {"initialize", "tool"}

ProviderInit ==
  /\ serverInit
  /\ providerIdle
  /\ pureIdle

\* a mutant of isReady: only the documents are looked at
isReadyWithDocs(i) == provDocs[i] # Null

\* FlexSearchProvider.isReady
isReady(i) == provReady[i] /\ provDocs[i] # Null /\ provIndex[i] # Null

\* entry: the `initialized` guard; await loadSearchProvider(searchSpecifier)
PBegin(p, k) ==
  /\ pc[p] = "idle"
  /\ kind' = [kind EXCEPT ![p] = k]
  /\ IF initialized
       THEN /\ pc' = [pc EXCEPT ![p] = "resolved"]
            /\ UNCHANGED <<attempts, loadQueue>>
       ELSE /\ pc' = [pc EXCEPT ![p] = "loadProvider"]
            /\ attempts' = attempts + 1
            /\ loadQueue' = Append(loadQueue, p)
  /\ UNCHANGED <<cfg, docs, searchIndex, initialized, mcpTransport, outcome,
                 docLoads, indexImports>>
  /\ UNCHANGED <<searchProvider, provReady, provDocs, provIndex, pureVars>>

\* loadSearchProvider resolved: this.searchProvider = <new provider>; the
\* init data is built; searchProvider.initialize runs to its first await.
\* loadSearchProvider('flexsearch') returns without awaiting anything
\* (src/providers/loader.ts 84-88), so its callers resume in call order.
PLoaded(p) ==
  /\ pc[p] = "loadProvider"
  /\ loadQueue # <<>> /\ Head(loadQueue) = p
  /\ loadQueue' = Tail(loadQueue)
  /\ searchProvider' = p
  /\ IF isDataConfig(cfg)
       THEN \* this.docs = initData.docs; await importSearchIndex(..)
            /\ provDocs' = [provDocs EXCEPT ![p] = SnapshotDocs]
            /\ pc' = [pc EXCEPT ![p] = "import"]
            /\ UNCHANGED <<docLoads, outcome>>
       ELSE IF isFileConfig(cfg)
       THEN \* await fs.pathExists(initData.docsPath)
            /\ pc' = [pc EXCEPT ![p] = "docsExists"]
            /\ UNCHANGED <<provDocs, docLoads, outcome>>
       ELSE \* throw new Error('Invalid server config ...')
            /\ Reject(p)
            /\ UNCHANGED <<provDocs, docLoads>>
  /\ UNCHANGED <<cfg, docs, searchIndex, initialized, mcpTransport, kind,
                 indexImports, attempts>>
  /\ UNCHANGED <<provReady, provIndex, pureVars>>

\* fs.pathExists(docsPath) resolved
PDocsExists(p) ==
  /\ pc[p] = "docsExists"
  /\ IF cfg.docsFile = "missing"
       THEN Reject(p)
       ELSE /\ pc' = [pc EXCEPT ![p] = "readDocs"]
            /\ UNCHANGED outcome
  /\ UNCHANGED <<cfg, docs, searchIndex, initialized, mcpTransport, kind,
                 docLoads, indexImports, attempts>>
  /\ UNCHANGED <<providerVars, pureVars>>

\* fs.readJson(docsPath) resolved: this.docs = ...; await fs.pathExists(indexPath)
PReadDocs(p) ==
  /\ pc[p] = "readDocs"
  /\ IF cfg.docsFile = "bad"
       THEN /\ Reject(p)
            /\ UNCHANGED <<provDocs, docLoads>>
       ELSE /\ provDocs' = [provDocs EXCEPT ![p] = SnapshotDocs]
            /\ docLoads' = docLoads + 1
            /\ pc' = [pc EXCEPT ![p] = "indexExists"]
            /\ UNCHANGED outcome
  /\ UNCHANGED <<cfg, docs, searchIndex, initialized, mcpTransport, kind,
                 indexImports, attempts>>
  /\ UNCHANGED <<searchProvider, provReady, provIndex, loadQueue, pureVars>>

\* fs.pathExists(indexPath) resolved
PIndexExists(p) ==
  /\ pc[p] = "indexExists"
  /\ IF cfg.indexFile = "missing"
       THEN Reject(p)
       ELSE /\ pc' = [pc EXCEPT ![p] = "readIndex"]
            /\ UNCHANGED outcome
  /\ UNCHANGED <<cfg, docs, searchIndex, initialized, mcpTransport, kind,
                 docLoads, indexImports, attempts>>
  /\ UNCHANGED <<providerVars, pureVars>>

\* fs.readJson(indexPath) resolved: await importSearchIndex(indexData)
PReadIndex(p) ==
  /\ pc[p] = "readIndex"
  /\ IF cfg.indexFile = "bad"
       THEN Reject(p)
       ELSE /\ pc' = [pc EXCEPT ![p] = "import"]
            /\ UNCHANGED outcome
  /\ UNCHANGED <<cfg, docs, searchIndex, initialized, mcpTransport, kind,
                 docLoads, indexImports, attempts>>
  /\ UNCHANGED <<providerVars, pureVars>>

\* importSearchIndex resolved: this.searchIndex = ...; this.ready = true;
\* the provider's initialize() returns
PImportDone(p) ==
  /\ pc[p] = "import"
  /\ provIndex' = [provIndex EXCEPT ![p] = SnapshotIndex]
  /\ provReady' = [provReady EXCEPT ![p] = TRUE]
  /\ indexImports' = indexImports + 1
  /\ pc' = [pc EXCEPT ![p] = "providerReady"]
  /\ UNCHANGED <<cfg, docs, searchIndex, initialized, mcpTransport, kind,
                 outcome, docLoads, attempts>>
  /\ UNCHANGED <<searchProvider, provDocs, loadQueue, pureVars>>

\* `await this.searchProvider.initialize(..)` resumed: this.initialized = true
PInitialized(p) ==
  /\ pc[p] = "providerReady"
  /\ initialized' = TRUE
  /\ pc' = [pc EXCEPT ![p] = "resolved"]
  /\ UNCHANGED <<cfg, docs, searchIndex, mcpTransport, kind, outcome,
                 docLoads, indexImports, attempts>>
  /\ UNCHANGED <<providerVars, pureVars>>

\* a direct initialize() call returns
PInitializeReturns(p) ==
  /\ pc[p] = "resolved"
  /\ kind[p] = "initialize"
  /\ pc' = [pc EXCEPT ![p] = "done"]
  /\ outcome' = [outcome EXCEPT ![p] = "resolved"]
  /\ UNCHANGED <<cfg, docs, searchIndex, initialized, mcpTransport, kind,
                 docLoads, indexImports, attempts>>
  /\ UNCHANGED <<providerVars, pureVars>>

\* the docs_search tool handler after `await this.initialize()`,
\* src/plugin/route-collector.ts 259-281
PToolHandler(p) ==
  /\ pc[p] = "resolved"
  /\ kind[p] = "tool"
  /\ pc' = [pc EXCEPT ![p] = "done"]
  /\ outcome' = [outcome EXCEPT ![p] =
                   IF searchProvider = None \/ ~isReady(searchProvider)
                     THEN "notInitialized" ELSE "answered"]
  /\ UNCHANGED <<cfg, docs, searchIndex, initialized, mcpTransport, kind,
                 docLoads, indexImports, attempts>>
  /\ UNCHANGED <<providerVars, pureVars>>

ProviderNext ==
  \/ \E p \in Callers, k \in ProviderKinds : PBegin(p, k)
  \/ \E p \in Callers : PLoaded(p)
  \/ \E p \in Callers : PDocsExists(p)
  \/ \E p \in Callers : PReadDocs(p)
  \/ \E p \in Callers : PIndexExists(p)
  \/ \E p \in Callers : PReadIndex(p)
  \/ \E p \in Callers : PImportDone(p)
  \/ \E p \in Callers : PInitialized(p)
  \/ \E p \in Callers : PInitializeReturns(p)
  \/ \E p \in Callers : PToolHandler(p)

ProviderSpec == ProviderInit /\ [][ProviderNext]_vars

(***************************************************************************)
(* C2: in the provider-based server, a tool handler whose                  *)
(* `await this.initialize()` has resolved finds the search provider ready: *)
(* it never answers 'Server not initialized. Please try again.'            *)
(***************************************************************************)
C2_ResolvedCallerFindsProviderReady ==
  \A p \in Callers : outcome[p] # "notInitialized"

(***************************************************************************)
(* Text.  A string is a sequence of one-character strings; the classes     *)
(* below are the JavaScript regular-expression classes \s and \w           *)
(* restricted to the characters the model uses.                            *)
(***************************************************************************)
Whitespace == {" ", "\t", "\n"}
UpperCase == {"A", "B"}
WordChars == {"a", "b", "x", "z", "A", "B", "1", "_"}

\* String.prototype.toLowerCase, per character
LowerChar(c) == IF c = "A" THEN "a" ELSE IF c = "B" THEN "b" ELSE c

ToLowerCase(s) == [i \in 1..Len(s) |-> LowerChar(s[i])]

\* the characters of s that satisfy Keep, in order
RECURSIVE FilterChars(_, _)
FilterChars(s, keep) ==
  IF s = <<>> THEN <<>>
  ELSE IF Head(s) \in keep THEN <<Head(s)>> \o FilterChars(Tail(s), keep)
  ELSE FilterChars(Tail(s), keep)

\* s.replace(/X+/g, r): every maximal run of characters of `run` becomes r
RECURSIVE ReplaceRuns(_, _, _)
ReplaceRuns(s, run, r) ==
  IF s = <<>> THEN <<>>
  ELSE IF Head(s) \in run
    THEN IF Len(s) >= 2 /\ s[2] \in run
           THEN ReplaceRuns(Tail(s), run, r)
           ELSE r \o ReplaceRuns(Tail(s), run, r)
    ELSE <<Head(s)>> \o ReplaceRuns(Tail(s), run, r)

\* the number of leading characters of s that are in `cls`
RECURSIVE LeadingCount(_, _)
LeadingCount(s, cls) ==
  IF s = <<>> \/ Head(s) \notin cls THEN 0
  ELSE 1 + LeadingCount(Tail(s), cls)

\* the number of trailing characters of s that are in `cls`
RECURSIVE TrailingCount(_, _)
TrailingCount(s, cls) ==
  IF s = <<>> \/ s[Len(s)] \notin cls THEN 0
  ELSE 1 + TrailingCount(SubSeq(s, 1, Len(s) - 1), cls)

\* String.prototype.trim
Trim(s) ==
  LET a == LeadingCount(s, Whitespace)
  IN  IF a = Len(s) THEN <<>>
      ELSE SubSeq(s, a + 1, Len(s) - TrailingCount(s, Whitespace))

\* String.prototype.slice(start, end)
Slice(s, start, end) ==
  LET n == Len(s)
      from == IF start < 0 THEN (IF n + start < 0 THEN 0 ELSE n + start)
              ELSE (IF start > n THEN n ELSE start)
      to == IF end < 0 THEN (IF n + end < 0 THEN 0 ELSE n + end)
            ELSE (IF end > n THEN n ELSE end)
  IN  IF from >= to THEN <<>> ELSE SubSeq(s, from + 1, to)

\* String.prototype.split('\n')
RECURSIVE SplitLines(_)
SplitLines(s) ==
  LET k == LeadingCount(s, {c \in {s[i] : i \in 1..Len(s)} : c # "\n"})
  IN  IF k = Len(s) THEN <<s>>
      ELSE <<SubSeq(s, 1, k)>> \o SplitLines(SubSeq(s, k + 2, Len(s)))

(***************************************************************************)
(* generateHeadingId, src/processing/heading-extractor.ts 68-81            *)
(***************************************************************************)

\* .replace(/[^\w\s-]/g, '')
StripNonWord(s) == FilterChars(s, WordChars \cup Whitespace \cup {"-"})

\* .replace(/\s+/g, '-')
SpacesToHyphens(s) == ReplaceRuns(s, Whitespace, <<"-">>)

\* .replace(/-+/g, '-')
CollapseHyphens(s) == ReplaceRuns(s, {"-"}, <<"-">>)

\* .replace(/^-|-$/g, ''): one leading hyphen, then one trailing hyphen of
\* what is left
TrimHyphens(s) ==
  LET t == IF s # <<>> /\ Head(s) = "-" THEN Tail(s) ELSE s
  IN  IF t # <<>> /\ t[Len(t)] = "-" THEN SubSeq(t, 1, Len(t) - 1) ELSE t

\* a mutant of generateHeadingId: runs of hyphens are not collapsed
generateHeadingIdKeepingRuns(text) ==
  TrimHyphens(SpacesToHyphens(StripNonWord(ToLowerCase(text))))

generateHeadingId(text) ==
  TrimHyphens(CollapseHyphens(SpacesToHyphens(StripNonWord(ToLowerCase(text)))))

(***************************************************************************)
(* extractHeadingsFromMarkdown, src/processing/heading-extractor.ts 6-63   *)
(***************************************************************************)

\* whether u matches \s+\{#([^}]+)\}$ : whitespace, "{#", an id without
\* "}", and "}" as the last character
AnchorStart(u) == LeadingCount(u, {" ", "\t"})

IsAnchorSuffix(u) ==
  LET w == AnchorStart(u)
  IN  /\ w >= 1
      /\ Len(u) >= w + 4
      /\ u[w + 1] = "{"
      /\ u[w + 2] = "#"
      /\ u[Len(u)] = "}"
      /\ \A i \in (w + 3)..(Len(u) - 1) : u[i] # "}"

AnchorId(u) == SubSeq(u, AnchorStart(u) + 3, Len(u) - 1)

\* s.replace(/D([^D]+)D/g, '$1') for a delimiter D of n characters d:
\* **bold**, _italic_, `code`
RECURSIVE StripDelimited(_, _, _)
StripDelimited(s, d, n) ==
  IF s = <<>> THEN <<>>
  ELSE
    LET opens == Len(s) >= n /\ \A i \in 1..n : s[i] = d
        rest == SubSeq(s, n + 1, Len(s))
        inner == LeadingCount(rest, {c \in {rest[i] : i \in 1..Len(rest)} : c # d})
        after == SubSeq(rest, inner + 1, Len(rest))
        closes == Len(after) >= n /\ \A i \in 1..n : after[i] = d
    IN  IF opens /\ inner >= 1 /\ closes
          THEN SubSeq(rest, 1, inner)
                 \o StripDelimited(SubSeq(after, n + 1, Len(after)), d, n)
          ELSE <<Head(s)>> \o StripDelimited(Tail(s), d, n)

\* the backquote, which a TLA+ string cannot hold, is written "~"
Backquote == "~"

\* the three clean-up replacements of lines 27-29
CleanHeadingText(text) ==
  StripDelimited(StripDelimited(StripDelimited(text, "*", 2), "_", 1),
                 Backquote, 1)

\* line.match(/^(#{1,6})\s+(.+?)(?:\s+\{#([^}]+)\})?$/):
\* [matched, level, text (group 2), id (group 3, <<>> when absent)]
HeadingMatch(line) ==
  LET hashes == LeadingCount(line, {"#"})
      afterHashes == SubSeq(line, hashes + 1, Len(line))
      spaces == LeadingCount(afterHashes, {" ", "\t"})
      body == SubSeq(afterHashes, spaces + 1, Len(afterHashes))
      \* .+? is lazy: the shortest text after which the anchor matches
      splits == {k \in 1..(Len(body) - 1) :
                   IsAnchorSuffix(SubSeq(body, k + 1, Len(body)))}
      cut == IF splits = {} THEN Len(body)
             ELSE CHOOSE k \in splits : \A j \in splits : k <= j
  IN  IF hashes < 1 \/ hashes > 6 \/ spaces < 1
        THEN [matched |-> FALSE, level |-> 0, text |-> <<>>, id |-> <<>>]
      ELSE IF body = <<>>
        \* \s+ gives its last character back to .+?
        THEN [matched |-> spaces >= 2, level |-> hashes,
              text |-> <<afterHashes[Len(afterHashes)]>>, id |-> <<>>]
      ELSE [matched |-> TRUE, level |-> hashes,
            text |-> SubSeq(body, 1, cut),
            id |-> IF splits = {} THEN <<>>
                   ELSE AnchorId(SubSeq(body, cut + 1, Len(body)))]

\* currentOffset += line.length + 1
NextOffset(offset, line) == offset + Len(line) + 1

\* the first pass, lines 11-41: the headings of lines[i..], with
\* endOffset still -1
RECURSIVE ScanLines(_, _, _)
ScanLines(lines, i, currentOffset) ==
  IF i > Len(lines) THEN <<>>
  ELSE
    LET line == lines[i]
        m == HeadingMatch(line)
        here == IF m.matched
                  THEN <<[level |-> m.level,
                          text |-> Trim(CleanHeadingText(m.text)),
                          id |-> IF m.id = <<>> THEN generateHeadingId(m.text)
                                 ELSE m.id,
                          startOffset |-> currentOffset,
                          endOffset |-> -1]>>
                  ELSE <<>>
    IN  here \o ScanLines(lines, i + 1, NextOffset(currentOffset, line))

\* a mutant of DocumentEnd: the running offset after the last line
DocumentEndAfterLastLine(markdown) == Len(markdown) + 1

\* let endOffset = markdown.length
DocumentEnd(markdown) == Len(markdown)

\* a mutant of ClosesSection: only a shallower heading ends a section
ClosesSectionIfShallower(next, current) == next.level < current.level

\* next.level <= current.level
ClosesSection(next, current) == next.level <= current.level

\* the inner loop, lines 51-57: the end offset of heading i, looking from j
RECURSIVE EndOffsetFrom(_, _, _, _)
EndOffsetFrom(headings, i, j, markdown) ==
  IF j > Len(headings) THEN DocumentEnd(markdown)
  ELSE IF ClosesSection(headings[j], headings[i]) THEN headings[j].startOffset
  ELSE EndOffsetFrom(headings, i, j + 1, markdown)

extractHeadingsFromMarkdown(markdown) ==
  LET headings == ScanLines(SplitLines(markdown), 1, 0)
  IN  [i \in 1..Len(headings) |->
         [headings[i] EXCEPT !.endOffset =
            EndOffsetFrom(headings, i, i + 1, markdown)]]

(***************************************************************************)
(* extractSection, src/processing/heading-extractor.ts 86-98               *)
(***************************************************************************)
NullSection == <<"<null>">>

\* a mutant of FindHeading: the last heading with the id
FindLastHeading(headings, headingId) ==
  LET hits == {i \in 1..Len(headings) : headings[i].id = headingId}
  IN  IF hits = {} THEN 0 ELSE CHOOSE i \in hits : \A j \in hits : j <= i

\* headings.find((h) => h.id === headingId): its index, 0 for undefined
RECURSIVE FindFrom(_, _, _)
FindFrom(headings, headingId, i) ==
  IF i > Len(headings) THEN 0
  ELSE IF headings[i].id = headingId THEN i
  ELSE FindFrom(headings, headingId, i + 1)

FindHeading(headings, headingId) == FindFrom(headings, headingId, 1)

extractSection(markdown, headingId, headings) ==
  LET i == FindHeading(headings, headingId)
  IN  IF i = 0 THEN NullSection
      ELSE Trim(Slice(markdown, headings[i].startOffset, headings[i].endOffset))

(***************************************************************************)
(* The heading extractor applied to markdown bodies: every body of at most *)
(* MaxLines lines, each line one of HeadingLines.                          *)
(***************************************************************************)
MaxLines == 3

HeadingLines ==
  { <<>>,
    <<"b">>,
    <<"#", " ", "a">>,
    <<"#", "#", " ", "a">>,
    <<"#", "#", "#", " ", "b">>,
    <<"#", " ", "B", " ", "{", "#", "a", "}">>,
    <<"#", "a">>,
    <<"#", " ", " ">>,
    <<"#", " ", "*", "*", "a", "*", "*", " ", "~", "b", "~">> }

\* lines.join('\n')
RECURSIVE JoinLines(_)
JoinLines(lines) ==
  IF lines = <<>> THEN <<>>
  ELSE IF Len(lines) = 1 THEN lines[1]
  ELSE lines[1] \o <<"\n">> \o JoinLines(Tail(lines))

Markdowns ==
  {JoinLines(ls) : ls \in UNION {[1..n -> HeadingLines] : n \in 0..MaxLines}}

\* the heading ids asked for: present once, present twice, absent, empty
AskedIds == { <<"a">>, <<"b">>, <<"a", "-", "b">>, <<"z">>, <<>> }

HeadingInit ==
  /\ serverIdle
  /\ providerIdle
  /\ fin \in [markdown : Markdowns]
  /\ fout = [stage |-> "input"]

ExtractHeadings ==
  /\ fout.stage = "input"
  /\ "markdown" \in DOMAIN fin
  /\ fout' = [stage |-> "headings",
              headings |-> extractHeadingsFromMarkdown(fin.markdown)]
  /\ UNCHANGED <<serverVars, providerVars, fin>>

ExtractSection(headingId) ==
  /\ fout.stage = "headings"
  /\ fout' = [stage |-> "section",
              headings |-> fout.headings,
              headingId |-> headingId,
              section |-> extractSection(fin.markdown, headingId, fout.headings)]
  /\ UNCHANGED <<serverVars, providerVars, fin>>

HeadingNext ==
  \/ ExtractHeadings
  \/ \E headingId \in AskedIds : ExtractSection(headingId)

HeadingSpec == HeadingInit /\ [][HeadingNext]_vars

(***************************************************************************)
(* C5: every heading returned by extractHeadingsFromMarkdown(b) has        *)
(* 0 <= startOffset <= endOffset <= length(b).                             *)
(***************************************************************************)
C5_OffsetsWithinBody ==
  fout.stage \in {"headings", "section"} =>
    \A i \in 1..Len(fout.headings) :
      /\ 0 <= fout.headings[i].startOffset
      /\ fout.headings[i].startOffset <= fout.headings[i].endOffset
      /\ fout.headings[i].endOffset <= Len(fin.markdown)

\* a body whose last line is a heading, after an earlier heading that ends
\* before the end of the body
C5_Witness ==
  /\ fout.stage = "headings"
  /\ Len(fout.headings) >= 2
  /\ fout.headings[1].endOffset < Len(fin.markdown)
  /\ fout.headings[Len(fout.headings)].startOffset > 0
  /\ fout.headings[Len(fout.headings)].endOffset = Len(fin.markdown)
  /\ fin.markdown[Len(fin.markdown)] # "\n"

(***************************************************************************)
(* C6: endOffset(i) is the startOffset of the first later heading whose    *)
(* level is at most level(i), or the length of the body when there is      *)
(* none; the span of a heading contains the span of every deeper heading   *)
(* nested under it, and two spans are nested or disjoint.                  *)
(***************************************************************************)
C6_EndOffsetAndNesting ==
  fout.stage \in {"headings", "section"} =>
    LET h == fout.headings
        closers(i) == {j \in (i + 1)..Len(h) : h[j].level <= h[i].level}
    IN  /\ \A i \in 1..Len(h) :
             h[i].endOffset =
               IF closers(i) = {} THEN Len(fin.markdown)
               ELSE h[CHOOSE j \in closers(i) : \A k \in closers(i) : j <= k].startOffset
        /\ \A i \in 1..Len(h) : \A j \in (i + 1)..Len(h) :
             \/ h[i].endOffset <= h[j].startOffset
             \/ h[i].startOffset <= h[j].startOffset /\ h[j].endOffset <= h[i].endOffset
        /\ \A i \in 1..Len(h) : \A j \in (i + 1)..Len(h) :
             (\A k \in (i + 1)..j : h[k].level > h[i].level) =>
               h[i].startOffset < h[j].startOffset /\ h[j].endOffset <= h[i].endOffset

\* a level-1 heading that holds a level-2 heading and is ended by the next
\* level-1 heading
C6_Witness ==
  /\ fout.stage = "headings"
  /\ Len(fout.headings) = 3
  /\ fout.headings[1].level = 1
  /\ fout.headings[2].level = 2
  /\ fout.headings[3].level = 1
  /\ fout.headings[1].endOffset = fout.headings[3].startOffset
  /\ fout.headings[2].endOffset = fout.headings[3].startOffset
  /\ fout.headings[3].endOffset = Len(fin.markdown)

(***************************************************************************)
(* C7: extractSection returns null exactly when no heading has the id;     *)
(* otherwise it returns the trimmed text[startOffset:endOffset] of the     *)
(* first heading, in list order, that has the id.                          *)
(***************************************************************************)
C7_SectionOfFirstMatch ==
  fout.stage = "section" =>
    LET h == fout.headings
        hits == {i \in 1..Len(h) : h[i].id = fout.headingId}
    IN  /\ (fout.section = NullSection) <=> (hits = {})
        /\ hits # {} =>
             \E i \in hits :
               /\ \A j \in hits : i <= j
               /\ fout.section =
                    Trim(SubSeq(fin.markdown, h[i].startOffset + 1, h[i].endOffset))

\* two headings share the id asked for and their sections differ
C7_Witness ==
  /\ fout.stage = "section"
  /\ fout.section # NullSection
  /\ \E i, j \in 1..Len(fout.headings) :
       /\ i < j
       /\ fout.headings[i].id = fout.headingId
       /\ fout.headings[j].id = fout.headingId
       /\ fout.headings[i].text # fout.headings[j].text
       /\ Trim(SubSeq(fin.markdown, fout.headings[i].startOffset + 1,
                      fout.headings[i].endOffset))
            # Trim(SubSeq(fin.markdown, fout.headings[j].startOffset + 1,
                          fout.headings[j].endOffset))

(***************************************************************************)
(* generateHeadingId applied to every heading text of at most MaxIdLen     *)
(* characters of IdAlphabet, then to its own result.                       *)
(***************************************************************************)
MaxIdLen == 4

IdAlphabet == {"A", "a", "_", "-", " ", "!"}

HeadingTexts == UNION {[1..n -> IdAlphabet] : n \in 0..MaxIdLen}

HeadingIdInit ==
  /\ serverIdle
  /\ providerIdle
  /\ fin \in [text : HeadingTexts]
  /\ fout = [stage |-> "input"]

GenerateId ==
  /\ fout.stage = "input"
  /\ "text" \in DOMAIN fin
  /\ fout' = [stage |-> "id", id |-> generateHeadingId(fin.text)]
  /\ UNCHANGED <<serverVars, providerVars, fin>>

GenerateIdAgain ==
  /\ fout.stage = "id"
  /\ fout' = [stage |-> "again", id |-> fout.id,
              again |-> generateHeadingId(fout.id)]
  /\ UNCHANGED <<serverVars, providerVars, fin>>

HeadingIdNext ==
  \/ GenerateId
  \/ GenerateIdAgain

HeadingIdSpec == HeadingIdInit /\ [][HeadingIdNext]_vars

(***************************************************************************)
(* C8: generateHeadingId(t) holds only lowercase word characters and       *)
(* hyphens, has no leading, trailing or doubled hyphen, and deriving the   *)
(* id of the id gives the id back.                                         *)
(***************************************************************************)
C8_HeadingIdShapeAndFixedPoint ==
  /\ fout.stage \in {"id", "again"} =>
       /\ \A i \in 1..Len(fout.id) :
            fout.id[i] \in (WordChars \ UpperCase) \cup {"-"}
       /\ fout.id # <<>> => fout.id[1] # "-" /\ fout.id[Len(fout.id)] # "-"
       /\ \A i \in 1..(Len(fout.id) - 1) :
            ~(fout.id[i] = "-" /\ fout.id[i + 1] = "-")
  /\ fout.stage = "again" => fout.again = fout.id

\* a text with an upper-case letter, punctuation and a run of hyphen and
\* space, whose id differs from it
C8_Witness ==
  /\ fout.stage = "again"
  /\ fin.text = <<"A", "!", "-", " ">> \/ fin.text = <<"A", " ", "-", "a">>
  /\ fout.id \in {<<"a">>, <<"a", "-", "a">>}
  /\ fout.again = fout.id

(***************************************************************************)
(* docs_search.  The collection holds NDocs documents, named 1..NDocs; the *)
(* index is given by the ranked list of documents that FlexSearch returns  *)
(* for each indexed field when the query encodes to at least one term.     *)
(***************************************************************************)
NDocs == 22

DefaultLimit == 5

MinLimit == 1

MaxLimit == 20

Max(a, b) == IF a >= b THEN a ELSE b

Min(a, b) == IF a <= b THEN a ELSE b

\* document.index of createSearchIndex, in the order FlexSearch reports them
IndexFields == <<"title", "content", "headings", "description">>

\* FIELD_WEIGHTS, in half units (3.0, 2.0, 1.5, 1.0)
FIELD_WEIGHTS == [title |-> 6, headings |-> 4, description |-> 3, content |-> 2]

\* the class the encoder splits on
Separators ==
  Whitespace \cup {"-", "_", ".", ",", ";", ":", "!", "?", "'", "\"", "(", ")", "[", "]", "{", "}"}

\* encode: lower-case, split on Separators, filter(Boolean); TRUE when no
\* word is left
EncodesToNothing(query) == \A i \in 1..Len(query) : query[i] \in Separators

Take(s, n) == SubSeq(s, 1, Min(Max(n, 0), Len(s)))

\* index.search(query, {limit, enrich: true}): one entry per field that has
\* hits, each cut to `limit` documents
IndexSearch(index, query, limit) ==
  IF EncodesToNothing(query) THEN <<>>
  ELSE SelectSeq([f \in 1..Len(IndexFields) |->
                    [field |-> IndexFields[f],
                     result |-> Take(index[IndexFields[f]], limit)]],
                 LAMBDA fieldResult : fieldResult.result # <<>>)

\* the common denominator of the position scores of one search
RECURSIVE ScoreDenominator(_)
ScoreDenominator(rawResults) ==
  IF rawResults = <<>> THEN 1
  ELSE Len(rawResults[1].result) * ScoreDenominator(Tail(rawResults))

\* the number of results in the first n entries of rawResults
RECURSIVE ResultsBefore(_, _)
ResultsBefore(rawResults, n) ==
  IF n = 0 THEN 0
  ELSE Len(rawResults[n].result) + ResultsBefore(rawResults, n - 1)

\* the pairs (docId, weightedScore) in the order in which the two nested
\* loops visit them: positionScore = (results.length - i) / results.length,
\* weightedScore = positionScore * fieldWeight
WeightedScores(rawResults, denominator) ==
  [n \in 1..ResultsBefore(rawResults, Len(rawResults)) |->
     LET f == CHOOSE g \in 1..Len(rawResults) :
                /\ ResultsBefore(rawResults, g - 1) < n
                /\ n <= ResultsBefore(rawResults, g)
         i == n - ResultsBefore(rawResults, f - 1) - 1
         results == rawResults[f].result
     IN  [docId |-> results[i + 1],
          weightedScore |-> FIELD_WEIGHTS[rawResults[f].field]
                              * (Len(results) - i)
                              * (denominator \div Len(results))]]

RECURSIVE SumScores(_, _)
SumScores(visits, ns) ==
  IF ns = {} THEN 0
  ELSE LET n == CHOOSE x \in ns : TRUE
       IN  visits[n].weightedScore + SumScores(visits, ns \ {n})

\* a mutant of DocScores: a document keeps the highest of its weighted
\* scores instead of their sum
DocScoresByMaximum(visits) ==
  LET firstVisits ==
        SelectSeq([n \in 1..Len(visits) |-> n],
                  LAMBDA n : \A m \in 1..(n - 1) : visits[m].docId # visits[n].docId)
  IN  [k \in 1..Len(firstVisits) |->
         [docId |-> visits[firstVisits[k]].docId,
          score |-> LET own == {visits[n].weightedScore :
                                  n \in {m \in 1..Len(visits) :
                                           visits[m].docId = visits[firstVisits[k]].docId}}
                    IN  CHOOSE x \in own : \A y \in own : y <= x]]

\* docScores when the loops end: docScores.set(docId, existingScore +
\* weightedScore) keeps the keys of the Map in the order of their first
\* insertion and adds up the weighted scores of each key
DocScores(visits) ==
  LET firstVisits ==
        SelectSeq([n \in 1..Len(visits) |-> n],
                  LAMBDA n : \A m \in 1..(n - 1) : visits[m].docId # visits[n].docId)
  IN  [k \in 1..Len(firstVisits) |->
         [docId |-> visits[firstVisits[k]].docId,
          score |-> SumScores(visits,
                      {n \in 1..Len(visits) :
                         visits[n].docId = visits[firstVisits[k]].docId})]]

\* the place of results[j] after results.sort((a, b) => b.score - a.score):
\* highest score first, equal scores in their previous order
SortedPlace(results, j) ==
  1 + Cardinality({i \in 1..Len(results) : results[i].score > results[j].score})
    + Cardinality({i \in 1..(j - 1) : results[i].score = results[j].score})

SortByScore(results) ==
  [k \in 1..Len(results) |->
     results[CHOOSE j \in 1..Len(results) : SortedPlace(results, j) = k]]

\* the results array built from docScores: documents missing from docs are
\* skipped
BuildResults(docScores, documents, denominator) ==
  LET known == SelectSeq(docScores, LAMBDA e : e.docId \in documents)
  IN  [k \in 1..Len(known) |->
         [route |-> known[k].docId, score |-> known[k].score,
          unit |-> 2 * denominator]]

\* searchIndex(index, docs, query, {limit}); a result is a route and its
\* score, in units of 1 / (2 * denominator)
searchIndexResults(index, documents, query, limit) ==
  LET rawResults == IndexSearch(index, query, limit * 3)
      denominator == ScoreDenominator(rawResults)
      docScores == DocScores(WeightedScores(rawResults, denominator))
      results == BuildResults(docScores, documents, denominator)
  IN  Take(SortByScore(results), limit)

\* const { query, limit = 5 } = params
LimitOrDefault(limit) == IF limit.given THEN limit.value ELSE DefaultLimit

\* a mutant of effectiveLimit: the ceiling of 20 is not applied
effectiveLimitWithoutCeiling(limit) == Max(MinLimit, limit)

\* Math.min(Math.max(1, limit), 20)
effectiveLimit(limit) == Min(Max(MinLimit, limit), MaxLimit)

\* !query || query.trim().length === 0
IsBlank(query) == Trim(query) = <<>>

executeDocsSearch(params, index, documents) ==
  IF IsBlank(params.query)
    THEN [threw |-> TRUE, results |-> <<>>]
    ELSE [threw |-> FALSE,
          results |-> searchIndexResults(index, documents, Trim(params.query),
                                         effectiveLimit(LimitOrDefault(params.limit)))]

formatSearchResults(results) ==
  IF Len(results) = 0 THEN "No matching documents found." ELSE "Found result(s)"

\* inputSchema of docs_search: query z.string().min(1); limit
\* z.number().int().min(1).max(20).optional().default(5)
SchemaAccepts(params) ==
  /\ Len(params.query) >= 1
  /\ params.limit.given => params.limit.value \in MinLimit..MaxLimit

\* FlexSearchProvider.search(query, options)
ProviderSearch(index, documents, query, limit) ==
  searchIndexResults(index, documents, query, limit)
(***************************************************************************)
(* The paths that execute docs_search, each taken on a server whose        *)
(* initialize() has resolved with the documents and the index of fin.      *)
(***************************************************************************)
Ascending == [k \in 1..NDocs |-> k]

Descending == [k \in 1..NDocs |-> NDocs + 1 - k]

Indexes ==
  [title : {<<>>, Ascending, Descending, <<3, 1, 2>>},
   content : {<<>>, Ascending, <<2, 3>>},
   headings : {<<>>, <<2, 1>>},
   description : {<<>>, Descending}]

DocumentSets == {1..NDocs, 2..NDocs}

Queries ==
  { <<>>, <<" ">>, <<"\t", " ">>, <<"-">>, <<"a">>, <<" ", "a", " ">> }

LimitValues == {-1, 0, 1, 2, 20, 21}

Limits == {[given |-> FALSE, value |-> 0]}
            \cup {[given |-> TRUE, value |-> n] : n \in LimitValues}

SearchInit ==
  /\ serverIdle
  /\ providerIdle
  /\ fin \in [query : Queries, limit : Limits, index : Indexes,
              documents : DocumentSets]
  /\ fout = [stage |-> "input"]

Responded(path, isError, results, text) ==
  [stage |-> "done", path |-> path, isError |-> isError, results |-> results,
   text |-> text]

\* the outcome of a handler that lets executeDocsSearch throw into `errorText`
ExecuteAndFormat(path, params, errorText) ==
  LET r == executeDocsSearch(params, fin.index, fin.documents)
  IN  IF r.threw
        THEN Responded(path, TRUE, <<>>, errorText)
        ELSE Responded(path, FALSE, r.results, formatSearchResults(r.results))

\* a direct call of executeDocsSearch
ExecuteDocsSearch ==
  /\ fout.stage = "input"
  /\ "query" \in DOMAIN fin
  /\ fout' = ExecuteAndFormat("executeDocsSearch",
                              [query |-> fin.query, limit |-> fin.limit],
                              "Query parameter is required and must be a non-empty string")
  /\ UNCHANGED <<serverVars, providerVars, fin>>

\* the CallToolRequestSchema handler, case 'docs_search', and its catch
CallToolDocsSearch ==
  /\ fout.stage = "input"
  /\ "query" \in DOMAIN fin
  /\ fout' = ExecuteAndFormat("CallTool",
                              [query |-> fin.query, limit |-> fin.limit],
                              "Error executing tool docs_search")
  /\ UNCHANGED <<serverVars, providerVars, fin>>

\* handleRequest, method 'tools/call', case 'docs_search', and its catch
HandleRequestDocsSearch ==
  /\ fout.stage = "input"
  /\ "query" \in DOMAIN fin
  /\ fout' = ExecuteAndFormat("handleRequest",
                              [query |-> fin.query, limit |-> fin.limit],
                              "Internal error")
  /\ UNCHANGED <<serverVars, providerVars, fin>>

\* the registered docs_search tool of the snapshot-based server: the input
\* schema, then executeDocsSearch; an exception becomes an isError result
RegisteredDocsSearch ==
  /\ fout.stage = "input"
  /\ "query" \in DOMAIN fin
  /\ fout' =
       IF ~SchemaAccepts([query |-> fin.query, limit |-> fin.limit])
         THEN Responded("registerTool", TRUE, <<>>, "Invalid arguments")
         ELSE ExecuteAndFormat("registerTool",
                [query |-> fin.query,
                 limit |-> [given |-> TRUE, value |-> LimitOrDefault(fin.limit)]],
                "Query parameter is required and must be a non-empty string")
  /\ UNCHANGED <<serverVars, providerVars, fin>>

\* the registered docs_search tool of the provider-based server: the input
\* schema, then searchProvider.search(query, {limit})
ProviderDocsSearch ==
  /\ fout.stage = "input"
  /\ "query" \in DOMAIN fin
  /\ fout' =
       IF ~SchemaAccepts([query |-> fin.query, limit |-> fin.limit])
         THEN Responded("provider", TRUE, <<>>, "Invalid arguments")
         ELSE LET results == ProviderSearch(fin.index, fin.documents, fin.query,
                                            LimitOrDefault(fin.limit))
              IN  Responded("provider", FALSE, results, formatSearchResults(results))
  /\ UNCHANGED <<serverVars, providerVars, fin>>

SearchNext ==
  \/ ExecuteDocsSearch
  \/ CallToolDocsSearch
  \/ HandleRequestDocsSearch
  \/ RegisteredDocsSearch
  \/ ProviderDocsSearch

SearchSpec == SearchInit /\ [][SearchNext]_vars

(***************************************************************************)
(* C9: on every path that executes docs_search, an empty or                *)
(* whitespace-only query is answered with an error, never with a           *)
(* successful response.                                                    *)
(***************************************************************************)
C9_BlankQueryRejected ==
  (fout.stage = "done" /\ \A i \in 1..Len(fin.query) : fin.query[i] \in Whitespace)
    => fout.isError

(***************************************************************************)
(* C10: executeDocsSearch returns at most min(max(limit, 1), 20) results,  *)
(* with 5 for the limit when it is omitted.                                *)
(***************************************************************************)
C10_ResultCountWithinClampedLimit ==
  (fout.stage = "done" /\ fout.path \in {"executeDocsSearch", "CallTool", "handleRequest"}) =>
    Len(fout.results) <=
      (IF ~fin.limit.given THEN 5
       ELSE IF fin.limit.value < 1 THEN 1
       ELSE IF fin.limit.value > 20 THEN 20
       ELSE fin.limit.value)

\* more than 20 documents match and a limit of 21 is asked for: 20 come back
C10_Witness ==
  /\ fout.stage = "done"
  /\ fout.path = "executeDocsSearch"
  /\ fin.limit.given
  /\ fin.limit.value = 21
  /\ Len(fin.index.title) > 20
  /\ Len(fout.results) = 20

(***************************************************************************)
(* C11: given the per-field hit lists returned by the index, every         *)
(* returned document has the score                                         *)
(*   sum over the fields whose list contains it of                         *)
(*     weight(field) * (listLength - position) / listLength,               *)
(* with weights title 3, headings 2, description 1.5, content 1; no        *)
(* document is returned twice; the results are in non-increasing order of  *)
(* score and are the first `limit` of that order.                          *)
(***************************************************************************)
C11_AdditiveWeightedScoresRanked ==
  (fout.stage = "done" /\ ~fout.isError) =>
    LET L == IF ~fin.limit.given THEN 5
             ELSE IF fin.limit.value < 1 THEN 1
             ELSE IF fin.limit.value > 20 THEN 20
             ELSE fin.limit.value
        noTerm == \A i \in 1..Len(fin.query) : fin.query[i] \in Separators
        list(f) == IF noTerm THEN <<>>
                   ELSE IF Len(fin.index[f]) <= 3 * L THEN fin.index[f]
                   ELSE SubSeq(fin.index[f], 1, 3 * L)
        len(f) == IF list(f) = <<>> THEN 1 ELSE Len(list(f))
        D == len("title") * len("content") * len("headings") * len("description")
        share(d, f, w) ==
          IF \E i \in 1..Len(list(f)) : list(f)[i] = d
            THEN w * (Len(list(f)) - ((CHOOSE i \in 1..Len(list(f)) : list(f)[i] = d) - 1))
                   * (D \div Len(list(f)))
            ELSE 0
        score(d) == share(d, "title", 6) + share(d, "headings", 4)
                      + share(d, "description", 3) + share(d, "content", 2)
        hit == {d \in fin.documents :
                  \E f \in {"title", "content", "headings", "description"} :
                    \E i \in 1..Len(list(f)) : list(f)[i] = d}
        r == fout.results
    IN  /\ \A k \in 1..Len(r) :
             r[k].route \in hit /\ r[k].unit = 2 * D /\ r[k].score = score(r[k].route)
        /\ \A j, k \in 1..Len(r) : j # k => r[j].route # r[k].route
        /\ \A k \in 1..(Len(r) - 1) : r[k].score >= r[k + 1].score
        /\ Len(r) = (IF Cardinality(hit) < L THEN Cardinality(hit) ELSE L)
        /\ \A d \in hit :
             (\A k \in 1..Len(r) : r[k].route # d) => score(d) <= r[Len(r)].score

\* a search cut to its limit, whose first result is listed under two fields
\* and scores more than either field alone gives it
C11_Witness ==
  /\ fout.stage = "done"
  /\ ~fout.isError
  /\ fin.limit.given
  /\ fin.limit.value = 2
  /\ fin.index.title = <<3, 1, 2>>
  /\ fin.index.content = <<2, 3>>
  /\ fin.index.headings = <<2, 1>>
  /\ fin.index.description = <<>>
  /\ 1 \in fin.documents
  /\ Len(fout.results) = 2
  /\ fout.results[1].route = 2
  /\ fout.results[2].route = 3
  /\ fout.results[1].score > fout.results[2].score

(***************************************************************************)
(* The stemmer and the query terms, src/search/flexsearch-indexer.ts.      *)
(***************************************************************************)
Vowels == {"a", "e", "i", "o", "u"}

\* word.replace(/([^X])suffix$/, '$1' + r): the suffix is replaced when it
\* ends the word and, if `excluded` is not empty, follows a character that is
\* not in `excluded` (with `excluded` empty the pattern is /suffix$/)
ReplaceSuffix(word, excluded, suffix, r) ==
  LET n == Len(word) - Len(suffix)
  IN  IF /\ n >= 0
         /\ SubSeq(word, n + 1, Len(word)) = suffix
         /\ excluded # {} => (n >= 1 /\ word[n] \notin excluded)
        THEN SubSeq(word, 1, n) \o r
        ELSE word

\* a mutant of englishStemmer: the -tion and -sion rules are left out
englishStemmerKeepingTion(word) ==
  IF Len(word) <= 3 THEN word
  ELSE LET w4 == ReplaceSuffix(word, Vowels, <<"e", "d">>, <<>>)
           w5 == ReplaceSuffix(w4, Vowels, <<"e", "s">>, <<>>)
       IN  ReplaceSuffix(w5, {"s"}, <<"s">>, <<>>)

\* englishStemmer, src/search/flexsearch-indexer.ts 22-48
englishStemmer(word) ==
  IF Len(word) <= 3 THEN word
  ELSE LET w1 == ReplaceSuffix(word, {}, <<"i", "n", "g">>, <<>>)
           w2 == ReplaceSuffix(w1, {}, <<"t", "i", "o", "n">>, <<"t">>)
           w3 == ReplaceSuffix(w2, {}, <<"s", "i", "o", "n">>, <<"s">>)
           w4 == ReplaceSuffix(w3, Vowels, <<"e", "d">>, <<>>)
           w5 == ReplaceSuffix(w4, Vowels, <<"e", "s">>, <<>>)
           w6 == ReplaceSuffix(w5, {}, <<"l", "y">>, <<>>)
           w7 == ReplaceSuffix(w6, {}, <<"m", "e", "n", "t">>, <<>>)
           w8 == ReplaceSuffix(w7, {}, <<"n", "e", "s", "s">>, <<>>)
           w9 == ReplaceSuffix(w8, {}, <<"i", "e", "s">>, <<"y">>)
       IN  ReplaceSuffix(w9, {"s"}, <<"s">>, <<>>)

\* s.split(/\s+/): the pieces between the maximal runs of whitespace, the
\* empty first and last pieces included
RECURSIVE SplitOnWhitespace(_)
SplitOnWhitespace(s) ==
  IF \A i \in 1..Len(s) : s[i] \notin Whitespace THEN <<s>>
  ELSE LET i == CHOOSE j \in 1..Len(s) :
                  s[j] \in Whitespace /\ \A k \in 1..(j - 1) : s[k] \notin Whitespace
           rest == SubSeq(s, i, Len(s))
       IN  <<SubSeq(s, 1, i - 1)>>
             \o SplitOnWhitespace(SubSeq(rest, LeadingCount(rest, Whitespace) + 1, Len(rest)))

\* query.toLowerCase().split(/\s+/).filter(Boolean), then
\* [...queryTerms, ...queryTerms.map(englishStemmer)]
AllTerms(query) ==
  LET queryTerms == SelectSeq(SplitOnWhitespace(ToLowerCase(query)), LAMBDA t : t # <<>>)
  IN  queryTerms \o [k \in 1..Len(queryTerms) |-> englishStemmer(queryTerms[k])]
(***************************************************************************)
(* generateSnippet, src/search/flexsearch-indexer.ts 199-251.  The regular *)
(* expressions are matched from left to right, each replace(…/g) resuming  *)
(* after the match it has just replaced.                                   *)
(***************************************************************************)
maxLength == 200

SnippetBefore == 50

SnippetAfter == 150

LowerLetters ==
  {"a", "b", "c", "d", "e", "f", "g", "h", "i", "j", "k", "l", "m", "n", "o",
   "p", "q", "r", "s", "t", "u", "v", "w", "x", "y", "z"}

\* the first index q >= from with (s[q] \in cls) = member, 0 when there is none
FirstIndex(s, from, cls, member) ==
  LET found == SelectSeq([k \in 1..(Len(s) - from + 1) |-> from + k - 1],
                         LAMBDA q : (s[q] \in cls) = member)
  IN  IF from > Len(s) \/ found = <<>> THEN 0 ELSE found[1]

\* the last index of the maximal run of characters of cls that starts at p
\* (p - 1 when s[p] is not in cls)
RunEnd(s, p, cls) ==
  LET q == FirstIndex(s, p, cls, FALSE)
  IN  IF p > Len(s) THEN p - 1 ELSE IF q = 0 THEN Len(s) ELSE q - 1

\* the last index of the match of the expression `regex` that starts at p, 0
\* when it does not match there
MatchEnd(s, p, regex) ==
  CASE regex = "heading" ->   \* /^#{1,6}\s+/gm
         IF (p = 1 \/ s[p - 1] = "\n") /\ s[p] = "#"
           THEN LET h == RunEnd(s, p, {"#"})
                IN  IF h - p + 1 <= 6 /\ h < Len(s) /\ s[h + 1] \in Whitespace
                      THEN RunEnd(s, h + 1, Whitespace) ELSE 0
           ELSE 0
    [] regex = "link" ->      \* /\[([^\]]+)\]\([^)]+\)/g
         IF s[p] = "["
           THEN LET q == FirstIndex(s, p + 1, {"]"}, TRUE)
                    r == FirstIndex(s, q + 2, {")"}, TRUE)
                IN  IF q > p + 1 /\ q < Len(s) /\ s[q + 1] = "(" /\ r > q + 2
                      THEN r ELSE 0
           ELSE 0
    [] regex = "image" ->     \* /!\[([^\]]*)\]\([^)]+\)/g
         IF s[p] = "!" /\ p < Len(s) /\ s[p + 1] = "["
           THEN LET q == FirstIndex(s, p + 2, {"]"}, TRUE)
                    r == FirstIndex(s, q + 2, {")"}, TRUE)
                IN  IF q > 0 /\ q < Len(s) /\ s[q + 1] = "(" /\ r > q + 2
                      THEN r ELSE 0
           ELSE 0
    [] regex = "fence" ->     \* three backquotes, [a-z]*, \n?
         IF p + 2 <= Len(s) /\ \A k \in p..(p + 2) : s[k] = Backquote
           THEN LET e == RunEnd(s, p + 3, LowerLetters)
                IN  IF e < Len(s) /\ s[e + 1] = "\n" THEN e + 1 ELSE e
           ELSE 0
    [] regex = "code" ->      \* a backquote, [^backquote]+, a backquote
         IF s[p] = Backquote
           THEN LET q == FirstIndex(s, p + 1, {Backquote}, TRUE)
                IN  IF q > p + 1 THEN q ELSE 0
           ELSE 0
    [] regex = "space" ->     \* /\s+/g
         IF s[p] \in Whitespace THEN RunEnd(s, p, Whitespace) ELSE 0

\* what the match s[p..e] of `regex` is replaced by
Replacement(s, p, e, regex) ==
  CASE regex = "link" -> SubSeq(s, p + 1, FirstIndex(s, p + 1, {"]"}, TRUE) - 1)
    [] regex = "code" -> SubSeq(s, p + 1, e - 1)
    [] regex = "space" -> <<" ">>
    [] OTHER -> <<>>

\* s.slice(from - 1).replace(regex, replacement), matching within all of s
RECURSIVE ReplaceMatches(_, _, _)
ReplaceMatches(s, from, regex) ==
  LET starts == SelectSeq([k \in 1..(Len(s) - from + 1) |-> from + k - 1],
                          LAMBDA p : MatchEnd(s, p, regex) > 0)
  IN  IF from > Len(s) THEN <<>>
      ELSE IF starts = <<>> THEN SubSeq(s, from, Len(s))
      ELSE SubSeq(s, from, starts[1] - 1)
             \o Replacement(s, starts[1], MatchEnd(s, starts[1], regex), regex)
             \o ReplaceMatches(s, MatchEnd(s, starts[1], regex) + 1, regex)

\* lowerMarkdown.indexOf(term)
IndexOf(s, term) ==
  LET at == SelectSeq([k \in 1..(Len(s) - Len(term) + 1) |-> k],
                      LAMBDA p : SubSeq(s, p, p + Len(term) - 1) = term)
  IN  IF term = <<>> THEN 0
      ELSE IF Len(term) > Len(s) \/ at = <<>> THEN -1
      ELSE at[1] - 1

\* Math.min(markdown.length, bestIndex + bestTerm.length + 150)
SnippetEnd(markdown, bestIndex, bestTerm) ==
  Min(Len(markdown), bestIndex + Len(bestTerm) + SnippetAfter)

\* the snippet, as [prefix, snippet, suffix] with the ellipses as flags
generateSnippet(markdown, query) ==
  LET allTerms == AllTerms(query)
      lowerMarkdown == ToLowerCase(markdown)
      index == [k \in 1..Len(allTerms) |-> IndexOf(lowerMarkdown, allTerms[k])]
      found == {k \in 1..Len(allTerms) : index[k] # -1}
      \* the first term, in the order of allTerms, with the least index
      best == CHOOSE k \in found :
                \A j \in found : index[k] < index[j] \/ (index[k] = index[j] /\ k <= j)
      snippetStart == Max(0, index[best] - SnippetBefore)
      snippetEnd == SnippetEnd(markdown, index[best], allTerms[best])
      window == SubSeq(markdown, snippetStart + 1, snippetEnd)
      h == ReplaceMatches(window, 1, "heading")
      l == ReplaceMatches(h, 1, "link")
      i == ReplaceMatches(l, 1, "image")
      f == ReplaceMatches(i, 1, "fence")
      c == ReplaceMatches(f, 1, "code")
  IN  IF found = {}
        THEN [prefix |-> FALSE, snippet |-> SubSeq(markdown, 1, Min(maxLength, Len(markdown))),
              suffix |-> Len(markdown) > maxLength]
        ELSE [prefix |-> snippetStart > 0,
              snippet |-> Trim(ReplaceMatches(c, 1, "space")),
              suffix |-> snippetEnd < Len(markdown)]
(***************************************************************************)
(* generateSnippet applied to bodies made of a run of one character, a     *)
(* middle part and another run, so that the match lies at chosen distances *)
(* from the two ends of the body.                                          *)
(***************************************************************************)
SnippetInputs ==
  LET leads == {0, 49, 51, 60}
      tails == {0, 149, 151, 250}
      middles ==
        { <<"b">>,
          <<"b", "a", "a", "z">>,
          <<"B", " ", " ", "b">>,
          <<"#", " ", "a", "\n", "#", "#", " ", " ", "[", "a", "b", "]", "(", "x",
            ")", " ", "!", "[", "]", "(", "y", ")", "~", "~", "~", "a", "b", "\n",
            "~", "b", "~", "\t", "\n", " ", "z", "[", "a", "[", "b", "]", "(", "c",
            ")">> }
      queries ==
        { <<>>, <<"b">>, <<"z">>, <<"q">>, <<"B", " ", "a", "a", "z", "s">>,
          <<"m", "e", "n", "t">> }
  IN  {[markdown |-> [k \in 1..lead |-> c] \o middle \o [k \in 1..tail |-> c],
        query |-> q] :
         lead \in leads, tail \in tails, c \in {"a", " "},
         middle \in middles, q \in queries}

SnippetInit ==
  /\ serverIdle
  /\ providerIdle
  /\ fin \in SnippetInputs
  /\ fout = [stage |-> "input"]

GenerateSnippet ==
  /\ fout.stage = "input"
  /\ fout' = [stage |-> "snippet"] @@ generateSnippet(fin.markdown, fin.query)
  /\ UNCHANGED <<serverVars, providerVars, fin>>

SnippetNext == GenerateSnippet

SnippetSpec == SnippetInit /\ [][SnippetNext]_vars

(***************************************************************************)
(* C13: the text of a snippet, without its leading and trailing '...', is  *)
(* at most 200 characters long.                                            *)
(***************************************************************************)
C13_SnippetAtMostMaxLength ==
  fout.stage = "snippet" => Len(fout.snippet) <= 200

(***************************************************************************)
(* findMatchingHeadings, src/search/flexsearch-indexer.ts 256-280, applied *)
(* to the heading texts of a document.                                     *)
(***************************************************************************)
MaxHeadings == 4

MaxMatchingHeadings == 3

\* headingLower.split(/\s+/).map(englishStemmer).join(' ')
RECURSIVE StemWords(_)
StemWords(words) ==
  IF Len(words) = 1 THEN englishStemmer(words[1])
  ELSE englishStemmer(words[1]) \o <<" ">> \o StemWords(Tail(words))

\* the texts of the headings that match, in the order of `headings`, cut to
\* the first three
findMatchingHeadings(headings, query) ==
  LET allTerms == AllTerms(query)
      matches(text) ==
        LET headingLower == ToLowerCase(text)
            headingStemmed == StemWords(SplitOnWhitespace(headingLower))
        IN  \E k \in 1..Len(allTerms) :
              \/ IndexOf(headingLower, allTerms[k]) # -1
              \/ IndexOf(headingStemmed, englishStemmer(allTerms[k])) # -1
  IN  Take(SelectSeq(headings, matches), MaxMatchingHeadings)

MatchingInit ==
  /\ serverIdle
  /\ providerIdle
  /\ fin \in [headings : UNION {[1..n -> { <<"c", "a", "t">>,
                                            <<"T", "i", "n", "g">>,
                                            <<"a", " ", "t", "i", "n", "g", "s">>,
                                            <<"b">> }] : n \in 0..MaxHeadings},
              query : { <<>>, <<"b">>, <<"t", "i", "n", "g", "s">>,
                        <<"A", " ", "z">>, <<"m", "e", "n", "t">> }]
  /\ fout = [stage |-> "input"]

FindMatchingHeadings ==
  /\ fout.stage = "input"
  /\ "headings" \in DOMAIN fin
  /\ fout' = [stage |-> "matching",
              matchingHeadings |-> findMatchingHeadings(fin.headings, fin.query)]
  /\ UNCHANGED <<serverVars, providerVars, fin>>

MatchingNext == FindMatchingHeadings

MatchingSpec == MatchingInit /\ [][MatchingNext]_vars

(***************************************************************************)
(* C14: a result lists at most 3 matching headings, in document order, and *)
(* each of them is the text of a heading whose lower-cased text, or whose  *)
(* per-word-stemmed text, contains a raw or a stemmed query term.          *)
(***************************************************************************)
C14_MatchingHeadingsContainATerm ==
  fout.stage = "matching" =>
    LET m == fout.matchingHeadings
        raw == SelectSeq(SplitOnWhitespace(ToLowerCase(fin.query)), LAMBDA t : t # <<>>)
        terms == {raw[k] : k \in 1..Len(raw)} \cup {englishStemmer(raw[k]) : k \in 1..Len(raw)}
        contains(s, t) == \E p \in 1..(Len(s) - Len(t) + 1) : SubSeq(s, p, p + Len(t) - 1) = t
    IN  /\ Len(m) <= 3
        /\ \E at \in [1..Len(m) -> 1..Len(fin.headings)] :
             /\ \A k \in 1..Len(m) : fin.headings[at[k]] = m[k]
             /\ \A k \in 1..(Len(m) - 1) : at[k] < at[k + 1]
        /\ \A k \in 1..Len(m) :
             \E t \in terms :
               \/ contains(ToLowerCase(m[k]), t)
               \/ contains(StemWords(SplitOnWhitespace(ToLowerCase(m[k]))), t)

(***************************************************************************)
(* Page and section lookup: FlexSearchProvider.getDocument,                *)
(* executeDocsGetPage / formatPageContent and executeDocsGetSection /      *)
(* formatSectionContent.  A collection maps keys to documents; reading     *)
(* docs[key] also finds the properties every object inherits.              *)
(***************************************************************************)
MaxLookups == 2

\* the keys a plain object inherits from Object.prototype ('valueOf' stands
\* for all of them)
InheritedKeys == { <<"v", "a", "l", "u", "e", "O", "f">> }

Undefined == [undefined |-> TRUE]

NullDoc == [null |-> TRUE]

\* docs[key]
PropertyGet(collection, key) ==
  IF key \in DOMAIN collection THEN collection[key]
  ELSE IF key \in InheritedKeys THEN [inherited |-> key]
  ELSE Undefined

\* FlexSearchProvider.getDocument: this.docs[url] ?? null
getDocument(collection, url) ==
  IF PropertyGet(collection, url) = Undefined THEN NullDoc
  ELSE PropertyGet(collection, url)

\* the route after trim, with a leading slash and without a trailing one
NormalizeRoute(route) ==
  LET trimmed == Trim(route)
      slashed == IF trimmed # <<>> /\ trimmed[1] = "/" THEN trimmed
                 ELSE <<"/">> \o trimmed
  IN  IF Len(slashed) > 1 /\ slashed[Len(slashed)] = "/"
        THEN SubSeq(slashed, 1, Len(slashed) - 1)
        ELSE slashed

executeDocsGetPage(params, collection) ==
  IF params.route = <<>> THEN [threw |-> TRUE, doc |-> NullDoc]
  ELSE LET normalizedRoute == NormalizeRoute(params.route)
           altRoute == Tail(normalizedRoute)
       IN  [threw |-> FALSE,
            doc |-> IF PropertyGet(collection, normalizedRoute) # Undefined
                      THEN PropertyGet(collection, normalizedRoute)
                    ELSE IF PropertyGet(collection, altRoute) # Undefined
                      THEN PropertyGet(collection, altRoute)
                    ELSE NullDoc]

\* formatPageContent: the fixed message for null; for anything else the
\* page, which reads doc.headings.length and throws when there is none
formatPageContent(doc) ==
  IF doc = NullDoc THEN [threw |-> FALSE, text |-> "Page not found"]
  ELSE IF "headings" \in DOMAIN doc THEN [threw |-> FALSE, text |-> "Page"]
  ELSE [threw |-> TRUE, text |-> "TypeError"]

\* doc.headings.map((h) => ({id, text, level}))
AvailableHeadings(doc) ==
  [k \in 1..Len(doc.headings) |->
     [id |-> doc.headings[k].id, text |-> doc.headings[k].text,
      level |-> doc.headings[k].level]]

\* a mutant of executeDocsGetSection: a missing heading is answered like a
\* missing page, without the headings of the page
executeDocsGetSectionHidingHeadings(params, collection) ==
  LET doc == PropertyGet(collection, NormalizeRoute(params.route))
      id == Trim(params.headingId)
  IN  IF params.route = <<>> \/ params.headingId = <<>>
        THEN [threw |-> TRUE]
      ELSE IF doc = Undefined
        THEN [threw |-> FALSE, content |-> NullSection, doc |-> NullDoc,
              availableHeadings |-> <<>>]
      ELSE IF \A k \in 1..Len(doc.headings) : doc.headings[k].id # id
        THEN [threw |-> FALSE, content |-> NullSection, doc |-> doc,
              availableHeadings |-> <<>>]
      ELSE [threw |-> FALSE, content |-> extractSection(doc.markdown, id, doc.headings),
            doc |-> doc, availableHeadings |-> AvailableHeadings(doc)]

executeDocsGetSection(params, collection) ==
  LET doc == PropertyGet(collection, NormalizeRoute(params.route))
      id == Trim(params.headingId)
  IN  IF params.route = <<>> \/ params.headingId = <<>>
        THEN [threw |-> TRUE]
      ELSE IF doc = Undefined
        THEN [threw |-> FALSE, content |-> NullSection, doc |-> NullDoc,
              availableHeadings |-> <<>>]
      ELSE IF "headings" \notin DOMAIN doc
        THEN [threw |-> TRUE]
      ELSE IF \A k \in 1..Len(doc.headings) : doc.headings[k].id # id
        THEN [threw |-> FALSE, content |-> NullSection, doc |-> doc,
              availableHeadings |-> AvailableHeadings(doc)]
      ELSE [threw |-> FALSE, content |-> extractSection(doc.markdown, id, doc.headings),
            doc |-> doc, availableHeadings |-> AvailableHeadings(doc)]

\* formatSectionContent: the message, the heading id it names and the
\* headings it lists as "text (id: id)"
formatSectionContent(result, headingId) ==
  IF result.doc = NullDoc
    THEN [text |-> "Page not found", names |-> <<>>, listed |-> <<>>]
  ELSE IF result.content = NullSection \/ result.content = <<>>
    THEN [text |-> "Section not found", names |-> headingId,
          listed |-> [k \in 1..Len(result.availableHeadings) |->
                        [text |-> result.availableHeadings[k].text,
                         id |-> result.availableHeadings[k].id]]]
  ELSE [text |-> "Section", names |-> headingId, listed |-> <<>>]

\* a document assembled from its markdown
ProcessedDoc(route, markdown) ==
  [route |-> route, markdown |-> markdown,
   headings |-> extractHeadingsFromMarkdown(markdown)]

Collections ==
  LET a == ProcessedDoc(<<"/", "a">>,
                        <<"#", " ", "a", "\n", "#", "#", " ", "B", " ", "{", "#", "a",
                          "}", "\n", "#", " ", "b">>)
      b == ProcessedDoc(<<"/", "b">>, <<"b">>)
      root == ProcessedDoc(<<"/">>, <<"#", " ", "a">>)
  IN  { (<<"/", "a">> :> a) @@ (<<"/", "b">> :> b) @@ (<<"/">> :> root),
        (<<"a">> :> a) @@ (<<"/", "b">> :> b) }

LookupInit ==
  /\ serverIdle
  /\ providerIdle
  /\ fin \in [collection : Collections]
  /\ fout = [stage |-> "lookup", log |-> <<>>]

Logged(entry) ==
  /\ fout.stage = "lookup"
  /\ Len(fout.log) < MaxLookups
  /\ fout' = [fout EXCEPT !.log = Append(@, entry)]
  /\ UNCHANGED <<serverVars, providerVars, fin>>

\* a call of FlexSearchProvider.getDocument
GetDocument(url) ==
  /\ fout.stage = "lookup"
  /\ Logged([op |-> "getDocument", key |-> url, threw |-> FALSE,
             doc |-> getDocument(fin.collection, url)])

\* docs_get_page: executeDocsGetPage, then formatPageContent
GetPage(route) ==
  LET r == executeDocsGetPage([route |-> route], fin.collection)
  IN  /\ fout.stage = "lookup"
      /\ Logged([op |-> "docs_get_page", key |-> route,
                 threw |-> r.threw \/ formatPageContent(r.doc).threw,
                 doc |-> r.doc,
                 text |-> IF r.threw THEN "Error" ELSE formatPageContent(r.doc).text])

\* docs_get_section: executeDocsGetSection, then formatSectionContent
GetSection(route, headingId) ==
  LET r == executeDocsGetSection([route |-> route, headingId |-> headingId],
                                 fin.collection)
  IN  /\ fout.stage = "lookup"
      /\ Logged([op |-> "docs_get_section", key |-> route, headingId |-> headingId,
                 threw |-> r.threw,
                 result |-> r,
                 response |-> IF r.threw THEN [text |-> "Error"]
                              ELSE formatSectionContent(r, headingId)])

LookupNext ==
  \/ \E url \in { <<"/", "a">>, <<"a">>, <<"/", "z">>, <<"/">>, <<"/", "b">> } :
       GetDocument(url)
  \/ \E route \in { <<>>, <<"/", "a">>, <<"a">>, <<" ", "/", "a", "/", " ">>,
                    <<"/", "z">>, <<"/">>, <<"/", "b">>,
                    <<"v", "a", "l", "u", "e", "O", "f">> } : GetPage(route)
  \/ \E route \in { <<>>, <<"/", "a">>, <<"a", "/">>, <<"/", "z">>, <<"/", "b">> },
        headingId \in { <<>>, <<"a">>, <<" ", "b">>, <<"z">> } :
       GetSection(route, headingId)

LookupSpec == LookupInit /\ [][LookupNext]_vars
\* C15: for every document stored under a route r that begins with "/", a
\* lookup of r without its leading slash returns the same document as the
\* lookup of r, by getDocument and by the page tool alike.
C15_LookupNormalizesLeadingSlash ==
  fout.stage = "lookup" =>
    \A i, j \in 1..Len(fout.log) :
      (/\ fout.log[i].op \in {"getDocument", "docs_get_page"}
       /\ fout.log[j].op = fout.log[i].op
       /\ fout.log[i].key \in DOMAIN fin.collection
       /\ Head(fout.log[i].key) = "/"
       /\ fout.log[j].key = Tail(fout.log[i].key))
      => /\ fout.log[j].threw = fout.log[i].threw
         /\ fout.log[j].doc = fout.log[i].doc

\* C16: a lookup of a well-formed route or URL that is absent from the
\* documents does not throw, returns null, and the page tool renders the
\* fixed "Page not found" message.
C16_AbsentPageIsNullNotFailure ==
  fout.stage = "lookup" =>
    \A i \in 1..Len(fout.log) :
      (/\ fout.log[i].op \in {"getDocument", "docs_get_page"}
       /\ fout.log[i].key # <<>>
       /\ \A stored \in DOMAIN fin.collection :
            NormalizeRoute(stored) # NormalizeRoute(fout.log[i].key))
      => /\ ~fout.log[i].threw
         /\ fout.log[i].doc = NullDoc
         /\ fout.log[i].op = "docs_get_page" => fout.log[i].text = "Page not found"

\* C17: docs_get_section for an existing page and a heading id that none of
\* its headings has does not throw; its result carries every heading of the
\* page (id, text, level) in document order, and the rendered response names
\* the requested id and lists each heading's text and id.
C17_MissingSectionListsHeadings ==
  fout.stage = "lookup" =>
    \A i \in 1..Len(fout.log) :
      LET entry == fout.log[i]
          route == NormalizeRoute(entry.key)
          page == fin.collection[route]
      IN  (/\ entry.op = "docs_get_section"
           /\ entry.key # <<>>
           /\ entry.headingId # <<>>
           /\ route \in DOMAIN fin.collection
           /\ \A k \in 1..Len(page.headings) :
                page.headings[k].id # Trim(entry.headingId))
          => /\ ~entry.threw
             /\ entry.result.doc = page
             /\ Len(entry.result.availableHeadings) = Len(page.headings)
             /\ \A k \in 1..Len(page.headings) :
                  /\ entry.result.availableHeadings[k].id = page.headings[k].id
                  /\ entry.result.availableHeadings[k].text = page.headings[k].text
                  /\ entry.result.availableHeadings[k].level = page.headings[k].level
                  /\ entry.response.listed[k].text = page.headings[k].text
                  /\ entry.response.listed[k].id = page.headings[k].id
             /\ Len(entry.response.listed) = Len(page.headings)
             /\ entry.response.text = "Section not found"
             /\ entry.response.names = entry.headingId

\* a page with three headings, two of them sharing an id, asked for "z"
C17_Witness ==
  /\ fout.stage = "lookup"
  /\ \E i \in 1..Len(fout.log) :
       /\ fout.log[i].op = "docs_get_section"
       /\ fout.log[i].key = <<"/", "a">>
       /\ fout.log[i].headingId = <<"z">>
       /\ <<"/", "a">> \in DOMAIN fin.collection
       /\ ~fout.log[i].threw
       /\ Len(fout.log[i].response.listed) = 3
       /\ fout.log[i].response.listed[2] = [text |-> <<"B">>, id |-> <<"a">>]
\* ---------------------------------------------------------------------------
\* postBuild: routes are collected, pages are processed with at most
\* Concurrency of them in flight, the valid documents are indexed and the
\* artifacts are written.  The state of one build is the record fout.

NPages == 12
Concurrency == 10

Pending == [pending |-> TRUE]

\* filterRoutes, with patterns that are literal paths
filterRoutes(routes, excludePatterns) ==
  SelectSeq(routes, LAMBDA route : route.path \notin excludePatterns)

\* collectRoutes: discovered routes, filtered, the first of each path kept
collectRoutes(discovered, excludePatterns) ==
  LET filtered == filterRoutes(discovered, excludePatterns)
      kept == SelectSeq([k \in 1..Len(filtered) |-> k],
                        LAMBDA k : \A j \in 1..(k - 1) : filtered[j].path # filtered[k].path)
  IN  [k \in 1..Len(kept) |-> filtered[kept[k]]]

\* a mutant of processHtmlFile: no try/catch around the steps
processHtmlFileUncaught(file, route, options) ==
  IF file.extracted.threw
    THEN [threw |-> TRUE, doc |-> NullDoc]
  ELSE IF file.extracted.contentHtml = <<>>
    THEN [threw |-> FALSE, doc |-> NullDoc]
  ELSE IF file.converted.threw
    THEN [threw |-> TRUE, doc |-> NullDoc]
  ELSE IF \/ file.converted.markdown = <<>>
          \/ Len(Trim(file.converted.markdown)) < options.minContentLength
    THEN [threw |-> FALSE, doc |-> NullDoc]
  ELSE [threw |-> FALSE,
        doc |-> [route |-> route, title |-> file.extracted.title,
                 description |-> file.extracted.description,
                 markdown |-> file.converted.markdown,
                 headings |-> extractHeadingsFromMarkdown(file.converted.markdown)]]

\* processHtmlFile: the outcomes of extractContent and htmlToMarkdown for the
\* file are inputs; whatever they throw is caught and the page yields null
processHtmlFile(file, route, options) ==
  IF file.extracted.threw
    THEN [threw |-> FALSE, doc |-> NullDoc]
  ELSE IF file.extracted.contentHtml = <<>>
    THEN [threw |-> FALSE, doc |-> NullDoc]
  ELSE IF file.converted.threw
    THEN [threw |-> FALSE, doc |-> NullDoc]
  ELSE IF \/ file.converted.markdown = <<>>
          \/ Len(Trim(file.converted.markdown)) < options.minContentLength
    THEN [threw |-> FALSE, doc |-> NullDoc]
  ELSE [threw |-> FALSE,
        doc |-> [route |-> route, title |-> file.extracted.title,
                 description |-> file.extracted.description,
                 markdown |-> file.converted.markdown,
                 headings |-> extractHeadingsFromMarkdown(file.converted.markdown)]]

\* a mutant of HasFreeSlot: every page is started at once
HasFreeSlotAlways(inFlight) == TRUE

\* pMap's { concurrency: 10 }
HasFreeSlot(inFlight) == Cardinality(inFlight) < Concurrency

\* a mutant of pMapSettled: the map resolves once every mapper was started
pMapSettledOnceStarted(build) == build.next = Len(build.routes)

\* pMap resolves once every mapper has resolved
pMapSettled(build) ==
  /\ build.next = Len(build.routes)
  /\ build.inFlight = {}

\* a mutant of validDocsOf: the filter lets null through
validDocsOfKeepingNull(processedDocs) ==
  SelectSeq(processedDocs, LAMBDA doc : doc # Pending)

\* processedDocs.filter((doc) => doc !== null)
validDocsOf(processedDocs) ==
  SelectSeq(processedDocs, LAMBDA doc : doc # NullDoc /\ doc # Pending)

\* addDocumentToIndex: the record handed to index.add
Indexable(doc) ==
  [id |-> doc.route, title |-> doc.title, content |-> doc.markdown,
   headings |-> [k \in 1..Len(doc.headings) |-> doc.headings[k].text],
   description |-> doc.description]

\* buildSearchIndex: the documents added to a fresh index, in order
buildSearchIndex(documents) ==
  [k \in 1..Len(documents) |-> Indexable(documents[k])]

\* a mutant of DocsIndexOf: the documents are keyed by their title
DocsIndexOfByTitle(documents) ==
  [title \in { documents[k].title : k \in 1..Len(documents) } |->
     documents[CHOOSE k \in 1..Len(documents) :
                 /\ documents[k].title = title
                 /\ \A j \in (k + 1)..Len(documents) : documents[j].title # title]]

\* docsIndex[doc.route] = doc for each valid document, in order
DocsIndexOf(documents) ==
  [route \in { documents[k].route : k \in 1..Len(documents) } |->
     documents[CHOOSE k \in 1..Len(documents) :
                 /\ documents[k].route = route
                 /\ \A j \in (k + 1)..Len(documents) : documents[j].route # route]]

BuildInit ==
  LET Extracted(html) ==
        [threw |-> FALSE, contentHtml |-> html, title |-> <<"T">>, description |-> <<>>]
      Converted(markdown) == [threw |-> FALSE, markdown |-> markdown]
      page == Extracted(<<"<", "p", ">">>)
      File(pageKind) ==
        CASE pageKind = "ok" ->
               [extracted |-> page,
                converted |-> Converted(<<"#", " ", "a", "\n", "b", "c", "d">>)]
          [] pageKind = "unreadable" ->
               [extracted |-> [threw |-> TRUE], converted |-> Converted(<<>>)]
          [] pageKind = "no content" ->
               [extracted |-> Extracted(<<>>), converted |-> Converted(<<>>)]
          [] pageKind = "unconvertible" ->
               [extracted |-> page, converted |-> [threw |-> TRUE]]
          [] pageKind = "short" ->
               [extracted |-> page,
                converted |-> Converted(<<" ", " ", "a", "b", "c", "d", " ", "\n">>)]
          [] pageKind = "empty" ->
               [extracted |-> page, converted |-> Converted(<<>>)]
      mixed == <<"ok", "unreadable", "no content", "unconvertible", "short", "empty">>
      Site(n, pageKindOf(_)) ==
        [k \in 1..n |-> [path |-> k, htmlPath |-> k, file |-> File(pageKindOf(k))]]
  IN  /\ serverIdle
      /\ providerIdle
      /\ fin \in
           { [discovered |-> Site(NPages, LAMBDA k : mixed[((k - 1) % 6) + 1]),
              excludeRoutes |-> {}, minContentLength |-> 5],
             [discovered |-> Site(NPages, LAMBDA k : "ok"),
              excludeRoutes |-> {3}, minContentLength |-> 5],
             [discovered |-> Site(NPages, LAMBDA k : mixed[(k % 5) + 2]),
              excludeRoutes |-> {}, minContentLength |-> 5],
             [discovered |-> Site(2, LAMBDA k : mixed[(4 * k) - 3]),
              excludeRoutes |-> {}, minContentLength |-> 4],
             [discovered |-> Site(1, LAMBDA k : "ok"),
              excludeRoutes |-> {1}, minContentLength |-> 5] }
      /\ fout = [stage |-> "build", pc |-> "collect", routes |-> <<>>, next |-> 0,
                 inFlight |-> {}, calls |-> <<>>, processedDocs |-> <<>>,
                 validDocs |-> <<>>, docsIndex |-> <<>>, searchIndex |-> <<>>,
                 written |-> {}, manifest |-> <<>>]

BuildStep(at, build) ==
  /\ fout.stage = "build"
  /\ fout.pc = at
  /\ fout' = build
  /\ UNCHANGED <<serverVars, providerVars, fin>>

\* postBuild up to the call of pMap
CollectRoutes ==
  LET routes == collectRoutes(fin.discovered, fin.excludeRoutes)
  IN  /\ fout.stage = "build"
      /\ BuildStep("collect",
           [fout EXCEPT !.pc = IF routes = <<>> THEN "done" ELSE "map",
                        !.routes = routes,
                        !.calls = [k \in 1..Len(routes) |-> 0],
                        !.processedDocs = [k \in 1..Len(routes) |-> Pending]])

\* pMap calls the mapper for the next route
StartPage ==
  /\ fout.stage = "build"
  /\ fout.next < Len(fout.routes)
  /\ HasFreeSlot(fout.inFlight)
  /\ BuildStep("map",
       [fout EXCEPT !.next = @ + 1,
                    !.inFlight = @ \cup {fout.next + 1},
                    !.calls[fout.next + 1] = @ + 1])

\* the mapper of one page settles; a rejection rejects pMap and postBuild
FinishPage(k) ==
  /\ fout.stage = "build"
  /\ k \in fout.inFlight
  /\ LET r == processHtmlFile(fout.routes[k].file, fout.routes[k].path,
                              [minContentLength |-> fin.minContentLength])
     IN  BuildStep(fout.pc,
           [fout EXCEPT !.inFlight = @ \ {k},
                        !.processedDocs[k] = r.doc,
                        !.pc = IF r.threw /\ @ = "map" THEN "failed" ELSE @])

\* pMap resolves: filter, docsIndex, buildSearchIndex; reading the route of
\* an entry that is no document throws
BuildIndexes ==
  /\ fout.stage = "build"
  /\ pMapSettled(fout)
  /\ LET validDocs == validDocsOf(fout.processedDocs)
     IN  BuildStep("map",
           IF validDocs = <<>>
             THEN [fout EXCEPT !.pc = "done"]
           ELSE IF \E k \in 1..Len(validDocs) : validDocs[k] \in {NullDoc, Pending}
             THEN [fout EXCEPT !.pc = "failed"]
             ELSE [fout EXCEPT !.pc = "write",
                               !.validDocs = validDocs,
                               !.docsIndex = DocsIndexOf(validDocs),
                               !.searchIndex = buildSearchIndex(validDocs)])

\* exportSearchIndex, the manifest and the three files
WriteArtifacts ==
  /\ fout.stage = "build"
  /\ BuildStep("write",
       [fout EXCEPT !.pc = "done",
                    !.manifest = [docCount |-> Len(fout.validDocs)],
                    !.written = {"docs.json", "search-index.json", "manifest.json"}])

BuildNext ==
  \/ CollectRoutes
  \/ StartPage
  \/ \E k \in 1..(NPages + 1) : FinishPage(k)
  \/ BuildIndexes
  \/ WriteArtifacts

BuildSpec == BuildInit /\ [][BuildNext]_vars
C19_AtMostTenInFlightEachRouteOnce ==
  fout.stage = "build" =>
    /\ Cardinality(fout.inFlight) <= 10
    /\ \A k \in 1..Len(fout.routes) : fout.calls[k] <= 1
    /\ fout.pc \in {"write", "done"} =>
         \A k \in 1..Len(fout.routes) :
           fout.calls[k] = 1 /\ fout.processedDocs[k] # Pending

\* ten pages in flight while collected routes are still waiting
C19_Witness ==
  /\ fout.stage = "build"
  /\ fout.pc = "map"
  /\ Cardinality(fout.inFlight) = 10
  /\ fout.next < Len(fout.routes)

\* C20: the index exists only once every page has been processed, and it
\* holds exactly the valid documents, in order.
C20_IndexBuiltFromAllValidDocuments ==
  fout.stage = "build" /\ fout.searchIndex # <<>> =>
    /\ fout.inFlight = {}
    /\ \A k \in 1..Len(fout.routes) : fout.processedDocs[k] # Pending
    /\ Len(fout.searchIndex) = Len(validDocsOf(fout.processedDocs))
    /\ \A k \in 1..Len(fout.searchIndex) :
         /\ fout.searchIndex[k].id = validDocsOf(fout.processedDocs)[k].route
         /\ fout.searchIndex[k].content = validDocsOf(fout.processedDocs)[k].markdown
    /\ \A k \in 1..Len(fout.routes) :
         fout.processedDocs[k] # NullDoc =>
           \E j \in 1..Len(fout.searchIndex) : fout.searchIndex[j].id = fout.routes[k].path

\* an index of two documents built from a site where ten pages were skipped
C20_Witness ==
  /\ fout.stage = "build"
  /\ fout.pc = "write"
  /\ Len(fout.routes) >= NPages
  /\ Len(fout.searchIndex) = 2
  /\ fout.processedDocs[2] = NullDoc
\* C21: when no page yields a valid document, postBuild ends without an
\* error, the document collection is empty, and no manifest with a document
\* count other than zero is written.
C21_NoValidDocumentsNoManifest ==
  (/\ fout.stage = "build"
   /\ fout.pc # "collect"
   /\ fout.next = Len(fout.routes)
   /\ fout.inFlight = {}
   /\ \A k \in 1..Len(fout.routes) : fout.processedDocs[k] = NullDoc)
  => /\ fout.pc \in {"map", "done"}
     /\ fout.docsIndex = <<>>
     /\ "manifest.json" \in fout.written => fout.manifest.docCount = 0

\* a finished build of a site of NPages pages none of which is a document
C21_Witness ==
  /\ fout.stage = "build"
  /\ fout.pc = "done"
  /\ Len(fout.routes) >= NPages
  /\ \A k \in 1..Len(fout.routes) : fout.processedDocs[k] = NullDoc
  /\ fout.written = {}

\* C30: whenever postBuild has written a manifest, docs.json was written in
\* the same build and the manifest's docCount is the number of entries of
\* docs.json.
C30_DocCountIsNumberOfDocsJsonEntries ==
  (fout.stage = "build" /\ "manifest.json" \in fout.written)
    => /\ "docs.json" \in fout.written
       /\ fout.manifest.docCount = Cardinality(DOMAIN fout.docsIndex)

\* a build of several pages, some of them without a document, has written a
\* manifest counting more than one document
C30_Witness ==
  /\ fout.stage = "build"
  /\ fout.pc = "done"
  /\ "manifest.json" \in fout.written
  /\ fout.manifest.docCount > 1
  /\ fout.manifest.docCount < Len(fout.routes)
  /\ Cardinality(DOMAIN fout.docsIndex) = fout.manifest.docCount

\* ---------------------------------------------------------------------------
\* cleanMarkdown, the clean-up htmlToMarkdown applies to the converted text

MaxCleanLen == 6

\* .replace(/\n{3,}/g, '\n\n'): of a run of newlines the first two are kept
CollapseNewlines(s) ==
  LET kept == SelectSeq([k \in 1..Len(s) |-> k],
                        LAMBDA k : ~(/\ k >= 3
                                     /\ s[k] = "\n"
                                     /\ s[k - 1] = "\n"
                                     /\ s[k - 2] = "\n"))
  IN  [k \in 1..Len(kept) |-> s[kept[k]]]

\* String.prototype.trimEnd
TrimEnd(s) == SubSeq(s, 1, Len(s) - TrailingCount(s, Whitespace))

cleanMarkdown(markdown) ==
  LET lines == SplitLines(CollapseNewlines(markdown))
  IN  Trim(JoinLines([k \in 1..Len(lines) |-> TrimEnd(lines[k])])) \o <<"\n">>

CleanInit ==
  /\ serverIdle
  /\ providerIdle
  /\ fin \in [converted : UNION {[1..n -> {"a", " ", "\n"}] : n \in 0..MaxCleanLen}]
  /\ fout = [stage |-> "input"]

\* htmlToMarkdown from the text the processor returned
CleanMarkdown ==
  /\ fout.stage = "input"
  /\ "converted" \in DOMAIN fin
  /\ fout' = [stage |-> "clean", markdown |-> cleanMarkdown(fin.converted)]
  /\ UNCHANGED <<serverVars, providerVars, fin>>

\* the cleaned text is a fixed point of the clean-up or is cleaned further
CleanMarkdownAgain ==
  /\ fout.stage = "clean"
  /\ fout' = [stage |-> "again", markdown |-> cleanMarkdown(fout.markdown)]
  /\ UNCHANGED <<serverVars, providerVars, fin>>

CleanNext ==
  \/ CleanMarkdown
  \/ CleanMarkdownAgain

CleanSpec == CleanInit /\ [][CleanNext]_vars

\* C22: the cleaned text contains no run of three or more newlines, has no
\* line ending in whitespace, and ends with exactly one newline.
C22_CleanedMarkdownShape ==
  fout.stage = "clean" =>
    LET text == fout.markdown
    IN  /\ \A k \in 1..(Len(text) - 2) :
             ~(text[k] = "\n" /\ text[k + 1] = "\n" /\ text[k + 2] = "\n")
        /\ \A k \in 2..Len(text) :
             text[k] = "\n" => text[k - 1] \notin {" ", "\t"}
        /\ text # <<>>
        /\ text[Len(text)] = "\n"
        /\ Len(text) >= 2 => text[Len(text) - 1] # "\n"
\* ---------------------------------------------------------------------------
\* html-parser: the element tree (hast), cleanContentElement, extractTitle.
\* A node is a text [type, value] or an element [type, tagName, properties,
\* children]; properties is the sequence of the entries [name, value], a value
\* being a string [string |-> ...] or an array of strings [array |-> ...].

MaxDepth == 2

TextNode(value) == [type |-> "text", value |-> value]

ElementNode(tagName, properties, children) ==
  [type |-> "element", tagName |-> tagName, properties |-> properties,
   children |-> children]

ALWAYS_EXCLUDED ==
  << <<"s", "c", "r", "i", "p", "t">>, <<"s", "t", "y", "l", "e">>,
     <<"n", "o", "s", "c", "r", "i", "p", "t">> >>

\* childElement.properties?.[name]
PropertyOf(element, name) ==
  IF \E k \in 1..Len(element.properties) : element.properties[k].name = name
    THEN element.properties[CHOOSE k \in 1..Len(element.properties) :
                              element.properties[k].name = name].value
    ELSE Undefined

\* String.prototype.includes
Includes(s, part) ==
  \E k \in 0..(Len(s) - Len(part)) : SubSeq(s, k + 1, k + Len(part)) = part

\* selector.match(/\[([^=]+)="([^"]+)"\]/): the leftmost match, as
\* [attr, value], or Undefined
AttributeSelector(selector) ==
  LET n == Len(selector)
      Eq(i) == CHOOSE j \in (i + 1)..(n + 1) :
                 /\ j = n + 1 \/ selector[j] = "="
                 /\ \A k \in (i + 1)..(j - 1) : selector[k] # "="
      Quote(j) == CHOOSE q \in (j + 2)..(n + 1) :
                    /\ q = n + 1 \/ selector[q] = "\""
                    /\ \A k \in (j + 2)..(q - 1) : selector[k] # "\""
      MatchAt(i) ==
        /\ selector[i] = "["
        /\ Eq(i) > i + 1
        /\ Eq(i) + 1 <= n
        /\ selector[Eq(i) + 1] = "\""
        /\ Quote(Eq(i)) > Eq(i) + 2
        /\ Quote(Eq(i)) + 1 <= n
        /\ selector[Quote(Eq(i)) + 1] = "]"
      starts == {i \in 1..n : MatchAt(i)}
      first == CHOOSE i \in starts : \A other \in starts : i <= other
  IN  IF starts = {} THEN Undefined
      ELSE [attr |-> SubSeq(selector, first + 1, Eq(first) - 1),
            value |-> SubSeq(selector, Eq(first) + 2, Quote(Eq(first)) - 1)]

\* the body of the loop over allSelectors: does the selector remove the child
SelectorRemoves(childElement, selector) ==
  LET classes == PropertyOf(childElement, <<"c", "l", "a", "s", "s", "N", "a", "m", "e">>)
      className == Tail(selector)
      match == AttributeSelector(selector)
  IN  IF selector # <<>> /\ Head(selector) = "."
        THEN \/ /\ "array" \in DOMAIN classes
                /\ \E k \in 1..Len(classes.array) : classes.array[k] = className
             \/ /\ "string" \in DOMAIN classes
                /\ Includes(classes.string, className)
      ELSE IF selector # <<>> /\ Head(selector) = "["
        THEN /\ match # Undefined
             /\ PropertyOf(childElement, match.attr) = [string |-> match.value]
      ELSE childElement.tagName = selector

\* removeUnwanted: the children that no selector removes, each cleaned in turn
RECURSIVE removeUnwanted(_, _)
removeUnwanted(node, allSelectors) ==
  IF node.type # "element" THEN node
  ELSE LET kept == SelectSeq(node.children,
                             LAMBDA child :
                               \/ child.type # "element"
                               \/ \A k \in 1..Len(allSelectors) :
                                    ~SelectorRemoves(child, allSelectors[k]))
       IN  [node EXCEPT !.children =
              [k \in 1..Len(kept) |-> removeUnwanted(kept[k], allSelectors)]]

\* JSON.parse(JSON.stringify(element)): a new tree with the same fields
RECURSIVE JsonClone(_)
JsonClone(node) ==
  IF node.type = "text" THEN TextNode(node.value)
  ELSE ElementNode(node.tagName,
                   [k \in 1..Len(node.properties) |->
                      [name |-> node.properties[k].name,
                       value |-> node.properties[k].value]],
                   [k \in 1..Len(node.children) |-> JsonClone(node.children[k])])

\* cleanContentElement: the caller's element afterwards, and the result
cleanContentElement(element, excludeSelectors) ==
  [element |-> element,
   cleaned |-> removeUnwanted(JsonClone(element), ALWAYS_EXCLUDED \o excludeSelectors)]
\* hast-util-to-string: the text of the node and of its descendants
RECURSIVE toString(_)
toString(node) ==
  IF node.type = "text" THEN node.value
  ELSE LET RECURSIVE TextOf(_)
           TextOf(nodes) ==
             IF nodes = <<>> THEN <<>>
             ELSE toString(Head(nodes)) \o TextOf(Tail(nodes))
       IN  TextOf(node.children)

\* hast-util-select select(tagName, ...): the first element with the tag
\* name among the nodes and their descendants, in document order
RECURSIVE select(_, _)
select(tagName, nodes) ==
  IF nodes = <<>> THEN Undefined
  ELSE IF Head(nodes).type # "element" THEN select(tagName, Tail(nodes))
  ELSE IF Head(nodes).tagName = tagName THEN Head(nodes)
  ELSE IF select(tagName, Head(nodes).children) # Undefined
    THEN select(tagName, Head(nodes).children)
  ELSE select(tagName, Tail(nodes))

extractTitle(tree) ==
  LET h1Element == select(<<"h", "1">>, <<tree>>)
      titleElement == select(<<"t", "i", "t", "l", "e">>, <<tree>>)
  IN  IF h1Element # Undefined THEN Trim(toString(h1Element))
      ELSE IF titleElement # Undefined THEN Trim(toString(titleElement))
      ELSE <<"U", "n", "t", "i", "t", "l", "e", "d">>

\* serializeElement: the attributes written for an element, className as
\* class="a b", every other property as name="value"
SerializedAttributes(element) ==
  LET RECURSIVE JoinSpaced(_)
      JoinSpaced(words) ==
        IF words = <<>> THEN <<>>
        ELSE IF Len(words) = 1 THEN words[1]
        ELSE words[1] \o <<" ">> \o JoinSpaced(Tail(words))
  IN  [k \in 1..Len(element.properties) |->
         IF /\ element.properties[k].name = <<"c", "l", "a", "s", "s", "N", "a", "m", "e">>
            /\ "array" \in DOMAIN element.properties[k].value
           THEN [name |-> <<"c", "l", "a", "s", "s">>,
                 value |-> JoinSpaced(element.properties[k].value.array)]
           ELSE [name |-> element.properties[k].name,
                 value |-> element.properties[k].value.string]]

\* the elements below a node, at any depth
RECURSIVE Descendants(_)
Descendants(node) ==
  IF node.type # "element" THEN {}
  ELSE UNION { IF node.children[k].type = "element"
                 THEN {node.children[k]} \cup Descendants(node.children[k])
                 ELSE {}
               : k \in 1..Len(node.children) }

\* element trees: a body whose first child nests up to MaxDepth elements
RECURSIVE Chains(_)
Chains(depth) ==
  LET elements ==
        { [tagName |-> <<"p">>, properties |-> <<>>],
          [tagName |-> <<"s", "c", "r", "i", "p", "t">>, properties |-> <<>>],
          [tagName |-> <<"d", "i", "v">>,
           properties |-> <<[name |-> <<"c", "l", "a", "s", "s", "N", "a", "m", "e">>,
                             value |-> [array |-> << <<"x">> >>]]>>],
          [tagName |-> <<"d", "i", "v">>,
           properties |-> <<[name |-> <<"r", "o", "l", "e">>,
                             value |-> [string |-> <<"n">>]]>>],
          [tagName |-> <<"h", "1">>, properties |-> <<>>],
          [tagName |-> <<"t", "i", "t", "l", "e">>, properties |-> <<>>] }
      leaves == { TextNode(<<"t">>), TextNode(<<" ">>) }
               \cup { ElementNode(e.tagName, e.properties, <<>>) : e \in elements }
  IN  IF depth = 0 THEN leaves
      ELSE leaves \cup { ElementNode(e.tagName, e.properties, <<child>>) :
                           e \in elements, child \in Chains(depth - 1) }

ElementInit ==
  LET body == <<"b", "o", "d", "y">>
  IN  /\ serverIdle
      /\ providerIdle
      /\ fin \in
           [element : { ElementNode(body, <<>>, <<>>) }
                      \cup { ElementNode(body, <<>>, <<first>>) : first \in Chains(MaxDepth) }
                      \cup { ElementNode(body, <<>>, <<first, second>>) :
                               first \in Chains(MaxDepth), second \in Chains(0) },
            excludeSelectors :
              { <<>>,
                << <<"p">> >>,
                << <<".", "x">> >>,
                << <<"[", "r", "o", "l", "e", "=", "\"", "n", "\"", "]">> >>,
                << <<"[", "c", "l", "a", "s", "s", "=", "\"", "x", "\"", "]">> >>,
                << <<"h", "1">>, <<".", "x">>,
                   <<"[", "r", "o", "l", "e", "=", "\"", "n", "\"", "]">> >> }]
      /\ fout = [stage |-> "input"]

\* extractContent: the content element is cleaned
CleanContentElement ==
  /\ fout.stage = "input"
  /\ "excludeSelectors" \in DOMAIN fin
  /\ fout' = [stage |-> "cleaned"] @@ cleanContentElement(fin.element, fin.excludeSelectors)
  /\ UNCHANGED <<serverVars, providerVars, fin>>

\* extractContent and processHtmlFile: the title becomes the document's
ExtractTitle ==
  /\ fout.stage = "input"
  /\ "excludeSelectors" \in DOMAIN fin
  /\ fout' = [stage |-> "document",
              doc |-> processHtmlFile(
                        [extracted |-> [threw |-> FALSE, contentHtml |-> <<"<">>,
                                        title |-> extractTitle(fin.element),
                                        description |-> <<>>],
                         converted |-> [threw |-> FALSE, markdown |-> <<"t">>]],
                        <<"/">>, [minContentLength |-> 1]).doc]
  /\ UNCHANGED <<serverVars, providerVars, fin>>

ElementNext ==
  \/ CleanContentElement
  \/ ExtractTitle

ElementSpec == ElementInit /\ [][ElementNext]_vars

\* C23: cleanContentElement leaves the caller's element as it was, and in the
\* copy it returns no element below the root, at any depth, is a script, style
\* or noscript element, has a selected tag name, carries a selected class, or
\* has an attribute equal to the value of a selected [attr="value"].
C23_CleanedCopyHasNoExcludedElement ==
  fout.stage = "cleaned" =>
    /\ fout.element = fin.element
    /\ \A d \in Descendants(fout.cleaned) :
         /\ \A k \in 1..Len(ALWAYS_EXCLUDED) : d.tagName # ALWAYS_EXCLUDED[k]
         /\ \A k \in 1..Len(fin.excludeSelectors) :
              LET selector == fin.excludeSelectors[k]
                  attributes == SerializedAttributes(d)
              IN  /\ d.tagName # selector
                  /\ \A a \in 1..Len(attributes) :
                       /\ attributes[a].name = <<"c", "l", "a", "s", "s">>
                            => selector # <<".">> \o attributes[a].value
                       /\ selector # <<"[">> \o attributes[a].name \o <<"=", "\"">>
                                       \o attributes[a].value \o <<"\"", "]">>

\* C24: the title of a document is not empty; it is the text of the first h1
\* element, else the text of the title element, else "Untitled".
C24_DocumentTitleNotEmpty ==
  fout.stage = "document" =>
    /\ fout.doc.title # <<>>
    /\ LET h1s == {d \in Descendants(fin.element) : d.tagName = <<"h", "1">>}
           titles == {d \in Descendants(fin.element) : d.tagName = <<"t", "i", "t", "l", "e">>}
       IN  /\ h1s = {} /\ titles = {} =>
                fout.doc.title = <<"U", "n", "t", "i", "t", "l", "e", "d">>
           /\ h1s # {} => \E d \in h1s : fout.doc.title = Trim(toString(d))
           /\ h1s = {} /\ titles # {} =>
                \E d \in titles : fout.doc.title = Trim(toString(d))
\* ---------------------------------------------------------------------------
\* Tool calls on one McpDocsServer, one after the other, through the
\* CallToolRequestSchema handler and through handleRequest.  In this
\* specification a field of the server holds [object |-> ...] or null, and an
\* argument of a call is a value with its typeof.

MaxCalls == 2

Ref(object) == [object |-> object]

JsString(value) == [type |-> "string", value |-> value]

JsUndefined == [type |-> "undefined"]

JsNumber == [type |-> "number"]

\* initialize() on a data config whose index imports, taken as one step
initializeData(server, config) ==
  IF server.initialized THEN server
  ELSE [docs |-> Ref(config.collection), searchIndex |-> Ref(config.index),
        initialized |-> TRUE]

\* what a case of the switch returns or throws
ToolFailed == [unknown |-> FALSE, threw |-> TRUE]

ToolAnswer(text, payload) ==
  [unknown |-> FALSE, threw |-> FALSE, text |-> text, payload |-> payload]

\* case 'docs_search', after executeDocsSearch
SearchAnswer(r) ==
  IF r.threw THEN ToolFailed ELSE ToolAnswer(formatSearchResults(r.results), r.results)

\* case 'docs_get_page', after executeDocsGetPage and formatPageContent
PageAnswer(r, formatted) ==
  IF r.threw \/ formatted.threw THEN ToolFailed ELSE ToolAnswer(formatted.text, r.doc)

\* case 'docs_get_section', after executeDocsGetSection
SectionAnswer(r, headingId) ==
  IF r.threw THEN ToolFailed
  ELSE ToolAnswer(formatSectionContent(r, headingId).text, r.content)

\* the page and its formatted text
PageOf(r) == PageAnswer(r, formatPageContent(r.doc))

\* the switch over the tool name: the typeof checks of the execute function,
\* the execute function and the format function
RunTool(name, arguments, server) ==
  CASE name = "docs_search" ->
         IF arguments.query.type # "string" THEN ToolFailed
         ELSE SearchAnswer(executeDocsSearch(
                             [query |-> arguments.query.value,
                              limit |-> [given |-> FALSE, value |-> 0]],
                             server.searchIndex.object, DOMAIN server.docs.object))
    [] name = "docs_get_page" ->
         IF arguments.route.type # "string" THEN ToolFailed
         ELSE PageOf(executeDocsGetPage([route |-> arguments.route.value],
                                        server.docs.object))
    [] name = "docs_get_section" ->
         IF arguments.route.type # "string" \/ arguments.headingId.type # "string"
           THEN ToolFailed
         ELSE SectionAnswer(executeDocsGetSection(
                              [route |-> arguments.route.value,
                               headingId |-> arguments.headingId.value],
                              server.docs.object),
                            arguments.headingId.value)
    [] OTHER -> [unknown |-> TRUE, threw |-> FALSE]

ToolError(text) == [isError |-> TRUE, text |-> text, payload |-> <<>>]

\* a mutant of CallToolResult: an error makes the server forget that it is
\* initialized
CallToolResultResetting(ready, r) ==
  IF r.unknown \/ r.threw
    THEN [server |-> [ready EXCEPT !.initialized = FALSE],
          response |-> ToolError("Error")]
    ELSE [server |-> ready,
          response |-> [isError |-> FALSE, text |-> r.text, payload |-> r.payload]]

\* the CallToolRequestSchema handler after the switch: the error results for
\* an unknown tool and for a thrown error, or the content
CallToolResult(ready, r) ==
  [server |-> ready,
   response |-> IF r.unknown THEN ToolError("Unknown tool")
                ELSE IF r.threw THEN ToolError("Error executing tool")
                ELSE [isError |-> FALSE, text |-> r.text, payload |-> r.payload]]

\* the CallToolRequestSchema handler after `await this.initialize()`
CallToolAfterInitialize(request, ready) ==
  IF ready.docs = NullDoc \/ ready.searchIndex = NullDoc
    THEN [server |-> ready,
          response |-> ToolError("Server not initialized. Please try again.")]
    ELSE CallToolResult(ready, RunTool(request.name, request.arguments, ready))

\* the CallToolRequestSchema handler: the server afterwards and the response
CallToolRequestHandler(request, server, config) ==
  CallToolAfterInitialize(request, initializeData(server, config))

\* handleRequest, tools/call, after the switch
ToolsCallResult(ready, r) ==
  [server |-> ready,
   response |-> IF r.unknown THEN ToolError("-32602 Unknown tool")
                ELSE IF r.threw THEN ToolError("-32603 Internal error")
                ELSE [isError |-> FALSE, text |-> r.text, payload |-> r.payload]]

\* handleRequest, tools/call, after `await this.initialize()`
ToolsCallAfterInitialize(request, ready) ==
  IF ready.docs = NullDoc \/ ready.searchIndex = NullDoc
    THEN [server |-> ready, response |-> ToolError("-32603 Server not initialized")]
    ELSE ToolsCallResult(ready, RunTool(request.name, request.arguments, ready))

\* handleRequest, method tools/call: the server afterwards and the response
handleRequest(request, server, config) ==
  ToolsCallAfterInitialize(request, initializeData(server, config))

ToolCalls ==
  LET Arguments(query, route, headingId) ==
        [query |-> query, route |-> route, headingId |-> headingId]
      none == JsUndefined
      a == JsString(<<"/", "a">>)
  IN  { [name |-> "docs_search", arguments |-> Arguments(q, none, none)] :
          q \in {JsString(<<"a">>), JsString(<<>>), none} }
      \cup { [name |-> "docs_get_page", arguments |-> Arguments(none, r, none)] :
               r \in {a, JsString(<<"/", "z">>), JsString(<<>>), none, JsNumber} }
      \cup { [name |-> "docs_get_section", arguments |-> Arguments(none, a, h)] :
               h \in {JsString(<<"a">>), JsString(<<"z">>), none, JsNumber} }
      \cup { [name |-> "nonexistent_tool", arguments |-> Arguments(none, none, none)] }

SessionInit ==
  /\ cfg = [mode |-> "data", docsFile |-> "ok", indexFile |-> "ok"]
  /\ fin \in [collection : Collections,
              index : {[title |-> << <<"/", "b">>, <<"/", "a">>, <<"a">> >>,
                        content |-> << <<"/", "a">> >>,
                        headings |-> <<>>,
                        description |-> <<>>]}]
  /\ \/ /\ docs = NullDoc
        /\ searchIndex = NullDoc
        /\ initialized = FALSE
     \/ /\ docs = Ref(fin.collection)
        /\ searchIndex = Ref(fin.index)
        /\ initialized = TRUE
  /\ mcpTransport = None
  /\ pc = [p \in Callers |-> "idle"]
  /\ kind = [p \in Callers |-> "none"]
  /\ outcome = [p \in Callers |-> "none"]
  /\ docLoads = 0
  /\ indexImports = 0
  /\ attempts = 0
  /\ providerIdle
  /\ fout = [stage |-> "session", log |-> <<>>]

\* one call: the fields of the server are replaced by what the handler left
Called(path, request, result) ==
  /\ fout.stage = "session"
  /\ Len(fout.log) < MaxCalls
  /\ docs' = result.server.docs
  /\ searchIndex' = result.server.searchIndex
  /\ initialized' = result.server.initialized
  /\ fout' = [fout EXCEPT !.log =
                Append(@, [path |-> path, request |-> request,
                           before |-> [docs |-> docs, searchIndex |-> searchIndex,
                                       initialized |-> initialized],
                           after |-> result.server,
                           response |-> result.response])]
  /\ UNCHANGED <<cfg, mcpTransport, pc, kind, outcome, docLoads, indexImports,
                 attempts, providerVars, fin>>

CallTool(request) ==
  /\ fout.stage = "session"
  /\ \E result \in {CallToolRequestHandler(request,
                       [docs |-> docs, searchIndex |-> searchIndex,
                        initialized |-> initialized], fin)} :
       Called("CallTool", request, result)

HandleToolsCall(request) ==
  /\ fout.stage = "session"
  /\ \E result \in {handleRequest(request,
                       [docs |-> docs, searchIndex |-> searchIndex,
                        initialized |-> initialized], fin)} :
       Called("handleRequest", request, result)

SessionNext ==
  \/ \E request \in ToolCalls : CallTool(request)
  \/ \E request \in ToolCalls : HandleToolsCall(request)

SessionSpec == SessionInit /\ [][SessionNext]_vars

MaxIndexers == 3

IndexerSpecifiers == {"flexsearch", "./custom.js", "./gated.js", "./broken.js", "./missing.js"}

\* loadIndexer: the built-in indexer, the default export of a module, or an
\* error.  shouldRun is optional in ContentIndexer.
loadIndexer(specifier) ==
  CASE specifier = "flexsearch" ->
         [threw |-> FALSE, name |-> "flexsearch",
          shouldRun |-> [defined |-> TRUE, value |-> TRUE], fails |-> FALSE,
          artifacts |-> <<"docs.json", "search-index.json">>]
    [] specifier = "./custom.js" ->
         [threw |-> FALSE, name |-> "custom",
          shouldRun |-> [defined |-> FALSE, value |-> FALSE], fails |-> FALSE,
          artifacts |-> <<"custom.json">>]
    [] specifier = "./gated.js" ->
         [threw |-> FALSE, name |-> "gated",
          shouldRun |-> [defined |-> TRUE, value |-> FALSE], fails |-> FALSE,
          artifacts |-> <<"gated.json">>]
    [] specifier = "./broken.js" ->
         [threw |-> FALSE, name |-> "broken",
          shouldRun |-> [defined |-> TRUE, value |-> TRUE], fails |-> TRUE,
          artifacts |-> <<>>]
    [] OTHER -> [threw |-> TRUE]

\* resolvedOptions.indexers ?? ['flexsearch']
indexerSpecs(option) ==
  IF option.type = "undefined" THEN <<"flexsearch">> ELSE option.value

\* a mutant of Skips: no indexer is ever skipped
SkipsNever(indexer) == FALSE

\* indexer.shouldRun && !indexer.shouldRun()
Skips(indexer) == indexer.shouldRun.defined /\ ~indexer.shouldRun.value

IndexersInit ==
  /\ serverIdle
  /\ providerIdle
  /\ fin \in [indexers : {[type |-> "false"], [type |-> "undefined"]}
                           \cup { [type |-> "array", value |-> v] :
                                    v \in UNION { [1..n -> IndexerSpecifiers] :
                                                    n \in 0..MaxIndexers } },
              docCount : {0, 2}]
  /\ fout = [stage |-> "indexers", pc |-> "start", i |-> 1, indexerNames |-> <<>>,
             completed |-> <<>>, written |-> <<>>,
             manifest |-> [docCount |-> 0, indexers |-> <<>>]]

\* postBuild up to the loop: indexing disabled or no valid document returns
PostBuildStart ==
  /\ fout.stage = "indexers"
  /\ fout.pc = "start"
  /\ fout' = [fout EXCEPT !.pc = IF fin.indexers.type = "false" \/ fin.docCount = 0
                                   THEN "done" ELSE "loop"]
  /\ UNCHANGED <<serverVars, providerVars, fin>>

\* one iteration of the loop over indexerSpecs; an error is logged and rethrown
RunNextIndexer ==
  /\ fout.stage = "indexers"
  /\ fout.pc = "loop"
  /\ fout.i <= Len(indexerSpecs(fin.indexers))
  /\ LET indexer == loadIndexer(indexerSpecs(fin.indexers)[fout.i])
     IN  fout' =
           IF indexer.threw THEN [fout EXCEPT !.pc = "rejected"]
           ELSE IF Skips(indexer) THEN [fout EXCEPT !.i = @ + 1]
           ELSE IF indexer.fails THEN [fout EXCEPT !.pc = "rejected"]
           ELSE [fout EXCEPT !.i = @ + 1,
                             !.written = @ \o indexer.artifacts,
                             !.completed = Append(@, fout.i),
                             !.indexerNames = Append(@, indexer.name)]
  /\ UNCHANGED <<serverVars, providerVars, fin>>

\* after the loop: the manifest, when at least one indexer ran
WriteManifest ==
  /\ fout.stage = "indexers"
  /\ fout.pc = "loop"
  /\ fout.i > Len(indexerSpecs(fin.indexers))
  /\ fout' = IF Len(fout.indexerNames) > 0
               THEN [fout EXCEPT !.pc = "done",
                                 !.manifest = [docCount |-> fin.docCount,
                                               indexers |-> fout.indexerNames],
                                 !.written = Append(@, "manifest.json")]
               ELSE [fout EXCEPT !.pc = "done"]
  /\ UNCHANGED <<serverVars, providerVars, fin>>

IndexersNext ==
  \/ PostBuildStart
  \/ RunNextIndexer
  \/ WriteManifest

IndexersSpec == IndexersInit /\ [][IndexersNext]_vars

\* the names, in configured order, of the configured indexers whose
\* shouldRun() is absent or true
NamesOfRunnable(specifiers) ==
  LET runnable == SelectSeq([k \in 1..Len(specifiers) |-> k],
                            LAMBDA k : /\ ~loadIndexer(specifiers[k]).threw
                                       /\ ~(/\ loadIndexer(specifiers[k]).shouldRun.defined
                                            /\ ~loadIndexer(specifiers[k]).shouldRun.value))
  IN  [k \in 1..Len(runnable) |-> loadIndexer(specifiers[runnable[k]]).name]

ManifestWritten == \E k \in 1..Len(fout.written) : fout.written[k] = "manifest.json"

\* C26 as stated: nothing is written with indexers: false; once postBuild has
\* ended the manifest is there exactly when an indexer ran to completion; it
\* is written after all indexers, listing those that ran in configured order.
C26_ManifestIffAnIndexerCompleted ==
  fout.stage = "indexers" =>
    /\ fin.indexers.type = "false" => fout.written = <<>>
    /\ fout.pc \in {"done", "rejected"} => (ManifestWritten <=> fout.completed # <<>>)
    /\ ManifestWritten =>
         /\ fout.i > Len(indexerSpecs(fin.indexers))
         /\ fout.written[Len(fout.written)] = "manifest.json"
         /\ fout.manifest.indexers = NamesOfRunnable(indexerSpecs(fin.indexers))

\* C26 amended: nothing is written with indexers: false; when postBuild
\* returns, the manifest is there exactly when an indexer ran to completion;
\* when an indexer fails postBuild rejects and there is no manifest, whatever
\* ran before; the manifest is written after all indexers and lists those
\* that ran in configured order.
C26_ManifestIffCompletedAndNoneFailed ==
  fout.stage = "indexers" =>
    /\ fin.indexers.type = "false" => fout.written = <<>>
    /\ fout.pc = "done" => (ManifestWritten <=> fout.completed # <<>>)
    /\ fout.pc = "rejected" => ~ManifestWritten
    /\ ManifestWritten =>
         /\ fout.i > Len(indexerSpecs(fin.indexers))
         /\ fout.written[Len(fout.written)] = "manifest.json"
         /\ fout.manifest.indexers = NamesOfRunnable(indexerSpecs(fin.indexers))

\* a manifest written after an indexer was skipped and two ran
C26_Witness ==
  /\ fout.stage = "indexers"
  /\ fout.pc = "done"
  /\ ManifestWritten
  /\ Len(fout.manifest.indexers) = 2
  /\ Len(indexerSpecs(fin.indexers)) = 3
\* ---------------------------------------------------------------------------
\* FlexSearchProvider objects used directly: initialize() with any init data,
\* one call after the other on a provider, and search() at any moment, also
\* while an initialize() is waiting.  fout.loaded records what the
\* initialize() calls on a provider have assigned; fout.last is the last
\* search() call with the fields of its provider at that moment.

MaxInits == 2

NProviders == 2

\* the providers that are used
Providers == 1..NProviders

InitDatas ==
  {[mode |-> "absent", docsFile |-> "ok", indexFile |-> "ok"]} \cup Configs

\* search(): the guard before searchIndex(...) is called
searchRejects(i) == ~isReady(i) \/ provDocs[i] = Null \/ provIndex[i] = Null

ReadyInit ==
  /\ serverIdle
  /\ providerIdle
  /\ fin = <<>>
  /\ fout = [stage |-> "ready",
             initData |-> [i \in Callers |-> [mode |-> "absent", docsFile |-> "ok",
                                              indexFile |-> "ok"]],
             loaded |-> [i \in Callers |-> [docs |-> FALSE, index |-> FALSE]],
             last |-> [provider |-> None, ready |-> FALSE, docs |-> Null,
                       index |-> Null, isReady |-> FALSE, rejected |-> FALSE]]

\* initialize(context, initData) up to its first await
RInitialize(i, initData) ==
  /\ fout.stage = "ready"
  /\ pc[i] \in {"idle", "done"}
  /\ attempts < MaxInits
  /\ attempts' = attempts + 1
  /\ IF isDataConfig(initData)
       THEN /\ provDocs' = [provDocs EXCEPT ![i] = SnapshotDocs]
            /\ fout' = [fout EXCEPT !.initData[i] = initData,
                                    !.loaded[i].docs = TRUE]
            /\ pc' = [pc EXCEPT ![i] = "import"]
            /\ outcome' = [outcome EXCEPT ![i] = "none"]
       ELSE IF isFileConfig(initData)
       THEN /\ pc' = [pc EXCEPT ![i] = "docsExists"]
            /\ outcome' = [outcome EXCEPT ![i] = "none"]
            /\ fout' = [fout EXCEPT !.initData[i] = initData]
            /\ UNCHANGED provDocs
       ELSE /\ Reject(i)
            /\ fout' = [fout EXCEPT !.initData[i] = initData]
            /\ UNCHANGED provDocs
  /\ UNCHANGED <<cfg, docs, searchIndex, initialized, mcpTransport, kind,
                 docLoads, indexImports>>
  /\ UNCHANGED <<searchProvider, provReady, provIndex, loadQueue, fin>>

\* fs.pathExists(docsPath) resolved
RDocsExists(i) ==
  /\ fout.stage = "ready"
  /\ pc[i] = "docsExists"
  /\ IF fout.initData[i].docsFile = "missing"
       THEN Reject(i)
       ELSE /\ pc' = [pc EXCEPT ![i] = "readDocs"]
            /\ UNCHANGED outcome
  /\ UNCHANGED <<cfg, docs, searchIndex, initialized, mcpTransport, kind,
                 docLoads, indexImports, attempts>>
  /\ UNCHANGED <<providerVars, pureVars>>

\* fs.readJson(docsPath) resolved: this.docs = ...
RReadDocs(i) ==
  /\ fout.stage = "ready"
  /\ pc[i] = "readDocs"
  /\ IF fout.initData[i].docsFile = "bad"
       THEN /\ Reject(i)
            /\ UNCHANGED <<provDocs, fout>>
       ELSE /\ provDocs' = [provDocs EXCEPT ![i] = SnapshotDocs]
            /\ fout' = [fout EXCEPT !.loaded[i].docs = TRUE]
            /\ pc' = [pc EXCEPT ![i] = "indexExists"]
            /\ UNCHANGED outcome
  /\ UNCHANGED <<cfg, docs, searchIndex, initialized, mcpTransport, kind,
                 docLoads, indexImports, attempts>>
  /\ UNCHANGED <<searchProvider, provReady, provIndex, loadQueue, fin>>

\* fs.pathExists(indexPath) resolved
RIndexExists(i) ==
  /\ fout.stage = "ready"
  /\ pc[i] = "indexExists"
  /\ IF fout.initData[i].indexFile = "missing"
       THEN Reject(i)
       ELSE /\ pc' = [pc EXCEPT ![i] = "readIndex"]
            /\ UNCHANGED outcome
  /\ UNCHANGED <<cfg, docs, searchIndex, initialized, mcpTransport, kind,
                 docLoads, indexImports, attempts>>
  /\ UNCHANGED <<providerVars, pureVars>>

\* fs.readJson(indexPath) resolved
RReadIndex(i) ==
  /\ fout.stage = "ready"
  /\ pc[i] = "readIndex"
  /\ IF fout.initData[i].indexFile = "bad"
       THEN Reject(i)
       ELSE /\ pc' = [pc EXCEPT ![i] = "import"]
            /\ UNCHANGED outcome
  /\ UNCHANGED <<cfg, docs, searchIndex, initialized, mcpTransport, kind,
                 docLoads, indexImports, attempts>>
  /\ UNCHANGED <<providerVars, pureVars>>

\* importSearchIndex resolved: this.searchIndex = ...; this.ready = true
RImportDone(i) ==
  /\ fout.stage = "ready"
  /\ pc[i] = "import"
  /\ provIndex' = [provIndex EXCEPT ![i] = SnapshotIndex]
  /\ provReady' = [provReady EXCEPT ![i] = TRUE]
  /\ fout' = [fout EXCEPT !.loaded[i].index = TRUE]
  /\ pc' = [pc EXCEPT ![i] = "done"]
  /\ outcome' = [outcome EXCEPT ![i] = "resolved"]
  /\ UNCHANGED <<cfg, docs, searchIndex, initialized, mcpTransport, kind,
                 docLoads, indexImports, attempts>>
  /\ UNCHANGED <<searchProvider, provDocs, loadQueue, fin>>

\* search(query) on provider i
RSearch(i) ==
  /\ fout.stage = "ready"
  /\ fout' = [fout EXCEPT !.last =
                [provider |-> i, ready |-> provReady[i], docs |-> provDocs[i],
                 index |-> provIndex[i], isReady |-> isReady(i),
                 rejected |-> searchRejects(i)]]
  /\ UNCHANGED <<serverVars, providerVars, fin>>

ReadyNext ==
  \/ \E i \in Providers, initData \in InitDatas : RInitialize(i, initData)
  \/ \E i \in Providers : RDocsExists(i)
  \/ \E i \in Providers : RReadDocs(i)
  \/ \E i \in Providers : RIndexExists(i)
  \/ \E i \in Providers : RReadIndex(i)
  \/ \E i \in Providers : RImportDone(i)
  \/ \E i \in Providers : RSearch(i)

ReadySpec == ReadyInit /\ [][ReadyNext]_vars

\* C27: isReady() is true only of a provider whose initialize() calls have
\* loaded the documents and the index, and a search() made while isReady()
\* is false rejects with 'Provider not initialized': before any initialize(),
\* while one is waiting, and after one that failed part-way.
C27_NotReadyUntilLoadedAndSearchRejects ==
  fout.stage = "ready" =>
    /\ \A i \in Providers :
         isReady(i) => fout.loaded[i].docs /\ fout.loaded[i].index
    /\ fout.last.provider # None /\ ~fout.last.isReady => fout.last.rejected

\* a search() rejected on a provider whose initialize() failed after the
\* documents were loaded
C27_Witness ==
  /\ fout.stage = "ready"
  /\ fout.last.provider # None
  /\ fout.last.docs # Null
  /\ fout.last.index = Null
  /\ fout.last.rejected
  /\ outcome[fout.last.provider] = "rejected"
  /\ pc[fout.last.provider] = "done"
  /\ provDocs[fout.last.provider] # Null
  /\ ~isReady(fout.last.provider)
\* ---------------------------------------------------------------------------
\* englishStemmer applied to one token.

StemPrefixes == {<<"a", "u", "t", "h", "e", "n", "t", "i", "c", "a">>, <<"c", "o", "n", "f", "i", "g", "u", "r", "a">>, <<"i", "n", "s", "t", "a", "l", "l">>, <<"p", "a", "g">>, <<"c", "a", "c", "h">>, <<"d", "e", "p", "l", "o", "y">>, <<"s">>}

StemSuffixes == {<<"t", "i", "o", "n">>, <<"s", "i", "o", "n">>, <<"i", "n", "g">>, <<"e", "d">>, <<"e", "s">>, <<"l", "y">>, <<"m", "e", "n", "t">>, <<"n", "e", "s", "s">>, <<"i", "e", "s">>, <<"s">>, <<>>, <<"t", "i", "o", "n", "s">>}

StemInit ==
  /\ serverIdle
  /\ providerIdle
  /\ fin \in [word : {prefix \o suffix : prefix \in StemPrefixes, suffix \in StemSuffixes}]
  /\ fout = [stage |-> "token"]

Stem ==
  /\ fout.stage = "token"
  /\ fout' = [stage |-> "stemmed", root |-> englishStemmer(fin.word)]
  /\ UNCHANGED <<serverVars, providerVars, fin>>

StemNext == Stem

StemSpec == StemInit /\ [][StemNext]_vars

\* C28 as stated: the stemmer maps 'authentication' to 'authent'.
C28_AuthenticationStemsToAuthent ==
  (fout.stage = "stemmed" /\ fin.word = <<"a", "u", "t", "h", "e", "n", "t", "i", "c", "a", "t", "i", "o", "n">>)
    => fout.root = <<"a", "u", "t", "h", "e", "n", "t">>

\* C28 amended: the stemmer maps 'authentication' to 'authenticat' (the
\* ending -tion becomes -t).
C28_AuthenticationStemsToAuthenticat ==
  (fout.stage = "stemmed" /\ fin.word = <<"a", "u", "t", "h", "e", "n", "t", "i", "c", "a", "t", "i", "o", "n">>)
    => fout.root = <<"a", "u", "t", "h", "e", "n", "t", "i", "c", "a", "t">>

\* the token 'authentication' has been stemmed
C28_Witness ==
  /\ fout.stage = "stemmed"
  /\ fin.word = <<"a", "u", "t", "h", "e", "n", "t", "i", "c", "a", "t", "i", "o", "n">>
  /\ Len(fout.root) < Len(fin.word)
\* ---------------------------------------------------------------------------
\* McpDocsServer.getStatus, src/mcp/server.ts 680-694: the initialized flag
\* and the number of keys of this.docs, 0 when this.docs is null.
getStatus ==
  [initialized |-> initialized,
   docCount |-> IF docs # Null THEN Cardinality(docs) ELSE 0]

====
